---- MODULE Spec2Model ----
(***************************************************************************)
(* The register codec of the R4DCB08 8-channel temperature module          *)
(* (src/src/protocol.rs): the conversions between 16-bit Modbus register   *)
(* words and the typed values Temperature, Temperatures, Channel,          *)
(* TemperatureCorrection, BaudRate, Address, AutomaticReport and           *)
(* FactoryReset; the client operations that read and write them           *)
(* (src/src/tokio_sync.rs); the thread-safe client that shares one Modbus  *)
(* context between threads (src/src/tokio_sync_safe_client.rs); and, of    *)
(* the command line tool (src/src/main.rs), the factory-reset command, the *)
(* RTU scan and the delay between frames.                                  *)
(*                                                                         *)
(* The codec is a set of pure functions.  Each is an operator below,       *)
(* computed the way the code computes it; the f32 arithmetic of the        *)
(* Temperature codec is carried out on IEEE-754 binary32 values            *)
(* (24-bit significand, round to nearest, ties to even), because the       *)
(* results of the codec depend on that rounding.  The state machine        *)
(* applies the functions to inputs drawn from bounded sets and records     *)
(* the call, its result, the requests it handed to the Modbus context and  *)
(* the lines it printed.  A second state machine, SafeSpec, runs the       *)
(* operations of the thread-safe client step by step in several threads.   *)
(***************************************************************************)
EXTENDS Integers, Sequences, FiniteSets

VARIABLES
    call,   \* the function called last and its argument
    ret,    \* what that call returned
    prev,   \* the call whose result was fed into this one, or NoCall
    wire,   \* the requests that call handed to the Modbus context, in order
    stdout, \* the lines that call printed, in order
    mutex,  \* the thread that holds the lock of the shared context, or Unlocked
    slave,  \* the slave id of the shared context
    acked,  \* the address the device acknowledged last, or the first slave id
    threads \* where each thread stands in its SafeClient operation

vars == <<call, ret, prev, wire, stdout, mutex, slave, acked, threads>>

(***************************************************************************)
(* Result<T, E>                                                            *)
(***************************************************************************)
Ok(v) == [ok |-> TRUE, val |-> v]
Err(e) == [ok |-> FALSE, err |-> e]

\* A panic: the call aborts instead of returning.
Panic(message) == [panic |-> message]

\* Whether a Result-shaped outcome is a panic.
Panicked(outcome) == "panic" \in DOMAIN outcome

(***************************************************************************)
(* f32: IEEE-754 binary32.  A finite value is (-1)^neg * m * 2^e with      *)
(* 2^23 <= m < 2^24 (normal), or m < 2^23 and e = -149 (subnormal, zero).  *)
(***************************************************************************)
F32(cls, neg, m, e) == [cls |-> cls, neg |-> neg, m |-> m, e |-> e]

F32_NAN == F32("nan", FALSE, 0, 0)

F32_INFINITY(neg) == F32("inf", neg, 0, 0)

F32_ZERO(neg) == F32("fin", neg, 0, -149)

is_nan(x) == x.cls = "nan"

\* The number of low bits of n * 2^e that do not fit a binary32 significand.
RECURSIVE DropBits(_, _)
DropBits(n, e) ==
    IF n >= 2^24 \/ (e < -149 /\ n > 0)
    THEN 1 + DropBits(n \div 2, e + 1)
    ELSE 0

\* The number of leading positions n * 2^e can be shifted up to be normal.
RECURSIVE GainBits(_, _)
GainBits(n, e) ==
    IF n > 0 /\ n < 2^23 /\ e > -149
    THEN 1 + GainBits(n * 2, e - 1)
    ELSE 0

\* Round to nearest, ties to even: the binary32 value nearest to
\* (n + f) * 2^e, where 0 <= f < 1 and f > 0 exactly when sticky.
F32Round(neg, n, e, sticky) ==
    LET d == DropBits(n, e)
        q == n \div 2^d
        r == n % 2^d
        half == IF d = 0 THEN 0 ELSE 2^(d - 1)
        up == /\ d > 0
              /\ \/ r > half
                 \/ r = half /\ sticky
                 \/ r = half /\ q % 2 = 1
        m == IF up THEN q + 1 ELSE q
        g == GainBits(m, e + d)
    IN  IF n = 0 \/ d > 30
        THEN F32_ZERO(neg)
        ELSE IF m = 2^24
        THEN (IF e + d + 1 > 104
              THEN F32_INFINITY(neg)
              ELSE F32("fin", neg, 2^23, e + d + 1))
        ELSE IF e + d > 104
        THEN F32_INFINITY(neg)
        ELSE F32("fin", neg, m * 2^g, e + d - g)

\* An integer below 2^31 in magnitude, converted as `n as f32`.
F32FromInt(n) ==
    IF n < 0 THEN F32Round(TRUE, -n, 0, FALSE) ELSE F32Round(FALSE, n, 0, FALSE)

\* The odd part d and the exponent k of a finite non-zero x = d * 2^k.
RECURSIVE TrailingZeros(_)
TrailingZeros(n) == IF n % 2 = 0 /\ n > 0 THEN 1 + TrailingZeros(n \div 2) ELSE 0

OddPart(x) == x.m \div 2^TrailingZeros(x.m)

OddExp(x) == x.e + TrailingZeros(x.m)

\* a * b, for a finite b whose odd part is small (b = 10.0 has odd part 5).
F32Mul(a, b) ==
    IF is_nan(a) \/ is_nan(b) THEN F32_NAN
    ELSE IF a.cls = "inf" THEN F32_INFINITY(a.neg # b.neg)
    ELSE F32Round(a.neg # b.neg, a.m * OddPart(b), a.e + OddExp(b), FALSE)

\* a / b, for a finite b whose odd part is small.
F32Div(a, b) ==
    IF is_nan(a) \/ is_nan(b) THEN F32_NAN
    ELSE IF a.cls = "inf" THEN F32_INFINITY(a.neg # b.neg)
    ELSE LET n == a.m * 2^6
             d == OddPart(b)
         IN  F32Round(a.neg # b.neg, n \div d, a.e - 6 - OddExp(b), n % d # 0)

\* a - b for two finite values that are integers (e >= 0 after scaling):
\* the difference of two integers below 2^24 is exact.
IntOf(x) == (IF x.neg THEN -1 ELSE 1) * (IF x.e >= 0 THEN x.m * 2^x.e ELSE x.m \div 2^(-x.e))

F32SubInt(a, b) == F32FromInt(IntOf(a) - IntOf(b))

\* a + b for a = 65536.0 and a finite b with -65536 <= b < 0 (the only sum
\* the codec forms), carried out in units of 2^-14 and rounded once.
F32Add(a, b) ==
    IF is_nan(a) \/ is_nan(b) THEN F32_NAN
    ELSE LET k == -(b.e + 14)
             whole == IF k <= 0 THEN b.m * 2^(-k)
                      ELSE IF k > 30 THEN 0
                      ELSE b.m \div 2^k
             part == IF k <= 0 THEN FALSE
                     ELSE IF k > 30 THEN b.m > 0
                     ELSE b.m % 2^k # 0
             n == IntOf(a) * 2^14 - whole - (IF part THEN 1 ELSE 0)
         IN  F32Round(FALSE, n, -14, part)

\* a <= b and a >= b; every comparison with NaN is false, -0.0 = 0.0.
F32Key(x) == IF x.m = 0 THEN <<0, 0>> ELSE <<x.e + 150, x.m>>

F32MagLess(a, b) ==
    IF a.cls = "inf" THEN FALSE
    ELSE IF b.cls = "inf" THEN TRUE
    ELSE \/ F32Key(a)[1] < F32Key(b)[1]
         \/ F32Key(a)[1] = F32Key(b)[1] /\ F32Key(a)[2] < F32Key(b)[2]

F32Eq(a, b) ==
    /\ ~is_nan(a)
    /\ ~is_nan(b)
    /\ a.cls = b.cls
    /\ F32Key(a) = F32Key(b)
    /\ (a.neg = b.neg \/ (a.cls = "fin" /\ a.m = 0))

F32Lt(a, b) ==
    /\ ~is_nan(a)
    /\ ~is_nan(b)
    /\ ~F32Eq(a, b)
    /\ IF a.neg /\ ~b.neg THEN TRUE
       ELSE IF ~a.neg /\ b.neg THEN FALSE
       ELSE IF a.neg THEN F32MagLess(b, a)
       ELSE F32MagLess(a, b)

F32Le(a, b) == F32Lt(a, b) \/ F32Eq(a, b)

F32Ge(a, b) == F32Le(b, a)

\* `x as u16`: truncates toward zero and saturates; NaN gives 0.
F32AsWord(x) ==
    IF is_nan(x) THEN 0
    ELSE IF x.neg THEN 0
    ELSE IF x.cls = "inf" THEN 65535
    ELSE IF x.e >= 0 THEN (IF x.m = 0 THEN 0 ELSE 65535)
    ELSE IF x.e < -30 THEN 0
    ELSE LET t == x.m \div 2^(-x.e) IN IF t > 65535 THEN 65535 ELSE t

(***************************************************************************)
(* protocol::Error and the range errors of the validated constructors.     *)
(***************************************************************************)
UnexpectedDataLength(expected, got) ==
    [kind |-> "UnexpectedDataLength", expected |-> expected, got |-> got]

InvalidData(details) == [kind |-> "InvalidData", details |-> details]

InvalidValueCode(entity, code) ==
    [kind |-> "InvalidValueCode", entity |-> entity, code |-> code]

EncodeError(reason) == [kind |-> "EncodeError", reason |-> reason]

ErrorDegreeCelsiusOutOfRange(value) ==
    [kind |-> "ErrorDegreeCelsiusOutOfRange", value |-> value]

ErrorAddressOutOfRange(value) ==
    [kind |-> "ErrorAddressOutOfRange", value |-> value]

(***************************************************************************)
(* Temperature(f32)                                                        *)
(***************************************************************************)
\* The f32 literal nearest to the decimal n / 10.
F32Literal(n) == F32Div(F32FromInt(n), F32FromInt(10))

Temperature_NAN == F32_NAN

Temperature_MIN == F32Literal(-32767)

Temperature_MAX == F32Literal(32767)

\* A decoder that reads every word as a two's-complement count of tenths.
Temperature_decode_twos_complement(word) ==
    IF word >= 32768
    THEN F32Div(F32SubInt(F32FromInt(word), F32FromInt(65536)), F32FromInt(10))
    ELSE F32Div(F32FromInt(word), F32FromInt(10))

Temperature_decode_from_holding_registers(word) ==
    IF word = 32768 THEN Temperature_NAN
    ELSE IF word > 32768
    THEN F32Div(F32SubInt(F32FromInt(word), F32FromInt(65536)), F32FromInt(10))
    ELSE F32Div(F32FromInt(word), F32FromInt(10))

\* An encoder that casts the product without the two's-complement offset.
Temperature_encode_unsigned(self) ==
    IF is_nan(self)
    THEN Err(EncodeError("Temperature value is NAN, which cannot be encoded."))
    ELSE Ok(F32AsWord(F32Mul(self, F32FromInt(10))))

\* An encoder whose offset for negative values is 65535 instead of 65536.
Temperature_encode_ones_complement(self) ==
    IF is_nan(self)
    THEN Err(EncodeError("Temperature value is NAN, which cannot be encoded."))
    ELSE IF F32Ge(self, F32_ZERO(FALSE))
    THEN Ok(F32AsWord(F32Mul(self, F32FromInt(10))))
    ELSE Ok(F32AsWord(F32Add(F32FromInt(65535), F32Mul(self, F32FromInt(10)))))

\* An encoder without the NaN check.
Temperature_encode_unchecked(self) ==
    IF F32Ge(self, F32_ZERO(FALSE))
    THEN Ok(F32AsWord(F32Mul(self, F32FromInt(10))))
    ELSE Ok(F32AsWord(F32Add(F32FromInt(65536), F32Mul(self, F32FromInt(10)))))

Temperature_encode_for_write_register(self) ==
    IF is_nan(self)
    THEN Err(EncodeError("Temperature value is NAN, which cannot be encoded."))
    ELSE IF F32Ge(self, F32_ZERO(FALSE))
    THEN Ok(F32AsWord(F32Mul(self, F32FromInt(10))))
    ELSE Ok(F32AsWord(F32Add(F32FromInt(65536), F32Mul(self, F32FromInt(10)))))

\* A constructor with the lower limit of the type's doc comment, -3276.8.
Temperature_try_from_documented_range(value) ==
    IF is_nan(value)
    THEN Err(ErrorDegreeCelsiusOutOfRange(value))
    ELSE IF ~(F32Le(F32Literal(-32768), value) /\ F32Le(value, Temperature_MAX))
    THEN Err(ErrorDegreeCelsiusOutOfRange(value))
    ELSE Ok(value)

Temperature_try_from(value) ==
    IF is_nan(value)
    THEN Err(ErrorDegreeCelsiusOutOfRange(value))
    ELSE IF ~(F32Le(Temperature_MIN, value) /\ F32Le(value, Temperature_MAX))
    THEN Err(ErrorDegreeCelsiusOutOfRange(value))
    ELSE Ok(value)

TemperatureCorrection_encode_for_write_register(correction_value) ==
    Temperature_encode_for_write_register(correction_value)

(***************************************************************************)
(* BaudRate                                                                *)
(***************************************************************************)
\* The register holding the baud rate code (0x00FF).
BaudRate_ADDRESS == 255

BaudRate_QUANTITY == 1

BaudRate_default == "B9600"

\* A decoder that falls back to the default rate for an unknown code.
BaudRate_decode_lenient(words) ==
    IF Len(words) # BaudRate_QUANTITY
    THEN Err(UnexpectedDataLength(BaudRate_QUANTITY, Len(words)))
    ELSE CASE words[1] = 0 -> Ok("B1200")
           [] words[1] = 1 -> Ok("B2400")
           [] words[1] = 2 -> Ok("B4800")
           [] words[1] = 3 -> Ok("B9600")
           [] words[1] = 4 -> Ok("B19200")
           [] OTHER -> Ok(BaudRate_default)

BaudRate_decode_from_holding_registers(words) ==
    IF Len(words) # BaudRate_QUANTITY
    THEN Err(UnexpectedDataLength(BaudRate_QUANTITY, Len(words)))
    ELSE CASE words[1] = 0 -> Ok("B1200")
           [] words[1] = 1 -> Ok("B2400")
           [] words[1] = 2 -> Ok("B4800")
           [] words[1] = 3 -> Ok("B9600")
           [] words[1] = 4 -> Ok("B19200")
           [] OTHER -> Err(InvalidValueCode("BaudRate", words[1]))

\* An encoder with codes counted from one.
BaudRate_encode_from_one(self) ==
    CASE self = "B1200" -> 1
      [] self = "B2400" -> 2
      [] self = "B4800" -> 3
      [] self = "B9600" -> 4
      [] self = "B19200" -> 5

\* An encoder with the codes of the two fastest rates exchanged.
BaudRate_encode_swapped(self) ==
    CASE self = "B1200" -> 0
      [] self = "B2400" -> 1
      [] self = "B4800" -> 2
      [] self = "B9600" -> 4
      [] self = "B19200" -> 3

BaudRate_encode_for_write_register(self) ==
    CASE self = "B1200" -> 0
      [] self = "B2400" -> 1
      [] self = "B4800" -> 2
      [] self = "B9600" -> 3
      [] self = "B19200" -> 4

\* From<BaudRate> for u16: the rate in baud.
BaudRate_into_u16(baud_rate) ==
    CASE baud_rate = "B1200" -> 1200
      [] baud_rate = "B2400" -> 2400
      [] baud_rate = "B4800" -> 4800
      [] baud_rate = "B9600" -> 9600
      [] baud_rate = "B19200" -> 19200

(***************************************************************************)
(* Address(u8)                                                             *)
(***************************************************************************)
\* The register holding the device address (0x00FE).
Address_ADDRESS == 254

Address_QUANTITY == 1

Address_MIN == 1

Address_MAX == 247

\* The broadcast address (0xFF), a public constant of type Address.
Address_BROADCAST == 255

\* The factory default address.
Address_default == 1

\* Display of ErrorAddressOutOfRange, kept as the pieces of the message.
ErrorAddressOutOfRange_to_string(err) ==
    << "The address value ", err.value,
       " is outside the valid assignable range of ", Address_MIN,
       " to ", Address_MAX >>

\* A constructor that only rejects zero.
Address_try_from_nonzero(value) ==
    IF Address_MIN <= value
    THEN Ok(value)
    ELSE Err(ErrorAddressOutOfRange(value))

Address_try_from(value) ==
    IF Address_MIN <= value /\ value <= Address_MAX
    THEN Ok(value)
    ELSE Err(ErrorAddressOutOfRange(value))

\* A decoder that drops the upper byte instead of checking it.
Address_decode_truncating(words) ==
    IF Len(words) # Address_QUANTITY
    THEN Err(UnexpectedDataLength(Address_QUANTITY, Len(words)))
    ELSE LET address_byte == words[1] % 256
         IN  IF Address_try_from(address_byte).ok
             THEN Ok(Address_try_from(address_byte).val)
             ELSE Err(InvalidData(ErrorAddressOutOfRange_to_string(
                          Address_try_from(address_byte).err)))

Address_decode_from_holding_registers(words) ==
    IF Len(words) # Address_QUANTITY
    THEN Err(UnexpectedDataLength(Address_QUANTITY, Len(words)))
    ELSE LET word_value == words[1]
             address_byte == word_value % 256
         IN  IF (word_value \div 256) * 256 # 0
             THEN Err(InvalidData(
                      << "Upper byte of address register is non-zero (value: ",
                         word_value, ")" >>))
             ELSE IF Address_try_from(address_byte).ok
             THEN Ok(Address_try_from(address_byte).val)
             ELSE Err(InvalidData(ErrorAddressOutOfRange_to_string(
                          Address_try_from(address_byte).err)))

Address_encode_for_write_register(self) == self

(***************************************************************************)
(* Temperatures([Temperature; NUMBER_OF_CHANNELS]) and Channel(u8)         *)
(***************************************************************************)
NUMBER_OF_CHANNELS == 8

\* The first of the registers holding the temperature readings (0x0000).
Temperatures_ADDRESS == 0

Temperatures_QUANTITY == NUMBER_OF_CHANNELS

\* for (i, word) in words.iter().enumerate() { array[i] = decode(*word) },
\* from position i on, then Ok(Self(array)); writing past the end of the
\* array panics.
RECURSIVE decode_each(_, _, _)
decode_each(array, words, i) ==
    IF i = Len(words) THEN Ok(array)
    ELSE IF i >= NUMBER_OF_CHANNELS
    THEN Panic("index out of bounds: the len is 8")
    ELSE decode_each(
             [array EXCEPT
                 ![i + 1] = Temperature_decode_from_holding_registers(words[i + 1])],
             words, i + 1)

\* A decoder that only rejects slices that are too short.
Temperatures_decode_at_least(words) ==
    IF Len(words) < NUMBER_OF_CHANNELS
    THEN Err(UnexpectedDataLength(NUMBER_OF_CHANNELS, Len(words)))
    ELSE decode_each([i \in 1 .. NUMBER_OF_CHANNELS |-> Temperature_NAN], words, 0)

Temperatures_decode_from_holding_registers(words) ==
    IF Len(words) # NUMBER_OF_CHANNELS
    THEN Err(UnexpectedDataLength(NUMBER_OF_CHANNELS, Len(words)))
    ELSE decode_each([i \in 1 .. NUMBER_OF_CHANNELS |-> Temperature_NAN], words, 0)

Channel_MIN == 0

Channel_MAX == NUMBER_OF_CHANNELS - 1

ErrorChannelOutOfRange(value) ==
    [kind |-> "ErrorChannelOutOfRange", value |-> value]

\* A constructor whose upper limit is the number of channels.
Channel_try_from_counting(value) ==
    IF Channel_MIN <= value /\ value <= NUMBER_OF_CHANNELS
    THEN Ok(value)
    ELSE Err(ErrorChannelOutOfRange(value))

Channel_try_from(value) ==
    IF Channel_MIN <= value /\ value <= Channel_MAX
    THEN Ok(value)
    ELSE Err(ErrorChannelOutOfRange(value))

(***************************************************************************)
(* TemperatureCorrection([Temperature; NUMBER_OF_CHANNELS])                *)
(***************************************************************************)
\* The first of the registers holding the correction values (0x0008).
TemperatureCorrection_ADDRESS == 8

TemperatureCorrection_QUANTITY == NUMBER_OF_CHANNELS

\* The words of a slice in reverse order.
Reversed(words) == [i \in 1 .. Len(words) |-> words[Len(words) + 1 - i]]

\* A decoder that numbers the channels from the last register.
TemperatureCorrection_decode_reversed(words) ==
    IF Len(words) # NUMBER_OF_CHANNELS
    THEN Err(UnexpectedDataLength(NUMBER_OF_CHANNELS, Len(words)))
    ELSE decode_each([i \in 1 .. NUMBER_OF_CHANNELS |-> Temperature_NAN],
                     Reversed(words), 0)

TemperatureCorrection_decode_from_holding_registers(words) ==
    IF Len(words) # NUMBER_OF_CHANNELS
    THEN Err(UnexpectedDataLength(NUMBER_OF_CHANNELS, Len(words)))
    ELSE decode_each([i \in 1 .. NUMBER_OF_CHANNELS |-> Temperature_NAN], words, 0)

\* An address computed from the base of the temperature readings.
TemperatureCorrection_channel_address_of_reading(channel) ==
    Temperatures_ADDRESS + channel

\* u16 + (u8 as u16)
TemperatureCorrection_channel_address(channel) ==
    TemperatureCorrection_ADDRESS + channel

(***************************************************************************)
(* AutomaticReport(u8)                                                     *)
(***************************************************************************)
\* The register holding the report interval (0x00FD).
AutomaticReport_ADDRESS == 253

AutomaticReport_QUANTITY == 1

AutomaticReport_DURATION_MIN == 0

AutomaticReport_DURATION_MAX == 255

\* Reporting disabled.
AutomaticReport_DISABLED == 0

\* impl From<u8> for AutomaticReport: no check.
AutomaticReport_from(interval_seconds) == interval_seconds

\* A decoder that drops the upper byte instead of checking it.
AutomaticReport_decode_truncating(words) ==
    IF Len(words) # AutomaticReport_QUANTITY
    THEN Err(UnexpectedDataLength(AutomaticReport_QUANTITY, Len(words)))
    ELSE Ok(AutomaticReport_from(words[1] % 256))

\* A decoder that reads the first word without looking at the length.
AutomaticReport_decode_unchecked_length(words) ==
    IF Len(words) = 0
    THEN Panic("index out of bounds: the len is 0 but the index is 0")
    ELSE IF (words[1] \div 256) * 256 # 0
    THEN Err(InvalidData(
             << "Upper byte of automatic report register is non-zero (value: ",
                words[1], ")" >>))
    ELSE Ok(AutomaticReport_from(words[1] % 256))

AutomaticReport_decode_from_holding_registers(words) ==
    IF Len(words) # AutomaticReport_QUANTITY
    THEN Err(UnexpectedDataLength(AutomaticReport_QUANTITY, Len(words)))
    ELSE LET word_value == words[1]
         IN  IF (word_value \div 256) * 256 # 0
             THEN Err(InvalidData(
                      << "Upper byte of automatic report register is non-zero (value: ",
                         word_value, ")" >>))
             ELSE Ok(AutomaticReport_from(word_value % 256))

\* self.0 as Word
AutomaticReport_encode_for_write_register(self) == self

\* std::time::Duration: whole seconds (u64) and the nanoseconds of the
\* started second (u32, below 10^9).
Duration(secs, nanos) == [secs |-> secs, nanos |-> nanos]

Duration_as_secs(value) == value.secs

ErrorDurationOutOfRange(value) ==
    [kind |-> "ErrorDurationOutOfRange", value |-> value]

\* A constructor that keeps the low byte of the seconds.
AutomaticReport_try_from_wrapping(value) ==
    Ok(Duration_as_secs(value) % 256)

AutomaticReport_try_from(value) ==
    LET secs == Duration_as_secs(value)
    IN  IF AutomaticReport_DURATION_MIN <= secs /\ secs <= AutomaticReport_DURATION_MAX
        THEN Ok(secs % 256)
        ELSE Err(ErrorDurationOutOfRange(secs))

(***************************************************************************)
(* FactoryReset                                                            *)
(***************************************************************************)
\* The register that triggers the reset (0x00FF).
FactoryReset_ADDRESS == 255

\* The word that triggers the reset.
FactoryReset_DATA == 5

\* An encoder that returns the code of the default baud rate.
FactoryReset_encode_default_baud_rate ==
    BaudRate_encode_for_write_register(BaudRate_default)

FactoryReset_encode_for_write_register == FactoryReset_DATA

(***************************************************************************)
(* The synchronous client (src/src/tokio_sync.rs).  A write hands one      *)
(* request to the Modbus context; the context answers with a               *)
(* tokio_modbus::Result: Ok(Ok(value)), Ok(Err(exception)) when the device *)
(* answers with a Modbus exception, Err(error) when the exchange fails.    *)
(***************************************************************************)
\* tokio_modbus::Error
Transport(io_kind) == [kind |-> "Transport", io |-> io_kind]

ProtocolError(details) == [kind |-> "Protocol", details |-> details]

\* tokio_common::Error
Error_ModbusException(code) == [kind |-> "ModbusException", code |-> code]

Error_Modbus(error) == [kind |-> "Modbus", error |-> error]

Error_Protocol(error) == [kind |-> "Protocol", error |-> error]

map_tokio_result(result) ==
    IF result.ok
    THEN IF result.val.ok
         THEN Ok(result.val.val)
         ELSE Err(Error_ModbusException(result.val.err))
    ELSE Err(Error_Modbus(result.err))

\* The request ctx.write_single_register(address, word) puts on the wire.
write_single_register(address, word) ==
    [fc |-> "write_single_register", address |-> address, word |-> word]

R4DCB08_set_address(new_address) ==
    write_single_register(Address_ADDRESS,
                          Address_encode_for_write_register(new_address))

R4DCB08_factory_reset ==
    write_single_register(FactoryReset_ADDRESS,
                          FactoryReset_encode_for_write_register)

\* The request ctx.read_holding_registers(address, quantity) puts on the wire.
read_holding_registers(address, quantity) ==
    [fc |-> "read_holding_registers", address |-> address, quantity |-> quantity]

(***************************************************************************)
(* The command line tool (src/src/main.rs), command FactoryReset.  Its     *)
(* client (src/src/tokio_sync_client.rs) returns the answers of the Modbus *)
(* context as they are, without mapping them.  The command asks for        *)
(* confirmation, reads the temperatures to verify the connection, then     *)
(* sends the reset; it exits with Ok(()) or with the error met.            *)
(***************************************************************************)
\* A command that sends the reset without looking at the answer to the read.
CliCommands_FactoryReset_unverified(confirm, read, write) ==
    [exit |-> IF ~confirm.ok THEN Err(confirm.err)
              ELSE IF write.ok THEN Ok(<<>>) ELSE Err(write.err),
     stdout |-> <<>>,
     wire |-> IF confirm.ok
              THEN <<read_holding_registers(Temperatures_ADDRESS, Temperatures_QUANTITY),
                     R4DCB08_factory_reset>>
              ELSE <<>>]

CliCommands_FactoryReset(confirm, read, write) ==
    LET warning ==
            << "WARNING: This will reset the R4DCB08 module to its factory default settings",
               "A POWER CYCLE (disconnect and reconnect power) IS REQUIRED to complete the reset." >>
        verifying ==
            Append(warning, "Verifying current connection to device before reset... ")
        read_request ==
            read_holding_registers(Temperatures_ADDRESS, Temperatures_QUANTITY)
        ignore_error ==
            IF write.err.kind = "Transport"
            THEN IF write.err.io = "TimedOut" THEN TRUE ELSE FALSE
            ELSE FALSE
    IN  IF ~confirm.ok
        THEN [exit |-> Err(confirm.err), stdout |-> warning, wire |-> <<>>]
        ELSE IF ~confirm.val
        THEN [exit |-> Ok(<<>>), stdout |-> warning, wire |-> <<>>]
        ELSE IF ~read.ok
        THEN [exit |-> Err(read.err),
              stdout |-> Append(verifying, "failed"),
              wire |-> <<read_request>>]
        ELSE IF ~read.val.ok
        THEN [exit |-> Err(read.val.err),
              stdout |-> Append(verifying, "failed"),
              wire |-> <<read_request>>]
        ELSE IF ~write.ok /\ ~ignore_error
        THEN [exit |-> Err(write.err),
              stdout |-> Append(verifying, "connection OK."),
              wire |-> <<read_request, R4DCB08_factory_reset>>]
        ELSE [exit |-> Ok(<<>>),
              stdout |-> verifying \o
                  << "connection OK.",
                     "Factory reset command sent successfully.",
                     "IMPORTANT: Please disconnect and reconnect power to the R4DCB08 module to complete the reset process." >>,
              wire |-> <<read_request, R4DCB08_factory_reset>>]

\* What a client operation did: the result it returned and the requests it
\* handed to the Modbus context.
Outcome(result, requests) == [ret |-> result, wire |-> requests]

\* The decoder F handed to read_and_decode, applied to the words read.
decoder(F, words) ==
    CASE F = "Temperatures::decode_from_holding_registers" ->
             Temperatures_decode_from_holding_registers(words)
      [] F = "TemperatureCorrection::decode_from_holding_registers" ->
             TemperatureCorrection_decode_from_holding_registers(words)
      [] F = "AutomaticReport::decode_from_holding_registers" ->
             AutomaticReport_decode_from_holding_registers(words)
      [] F = "BaudRate::decode_from_holding_registers" ->
             BaudRate_decode_from_holding_registers(words)
      [] F = "Address::decode_from_holding_registers" ->
             Address_decode_from_holding_registers(words)

\* The context answers the read request with response; the words of a good
\* answer go through the decoder, whose error becomes Error::Protocol.
read_and_decode(address, quantity, F, response) ==
    LET words == map_tokio_result(response)
        decoded == decoder(F, words.val)
    IN  Outcome(IF ~words.ok THEN words
                ELSE IF Panicked(decoded) THEN decoded
                ELSE IF decoded.ok THEN Ok(decoded.val)
                ELSE Err(Error_Protocol(decoded.err)),
                <<read_holding_registers(address, quantity)>>)

R4DCB08_read_temperatures(response) ==
    read_and_decode(Temperatures_ADDRESS, Temperatures_QUANTITY,
                    "Temperatures::decode_from_holding_registers", response)

R4DCB08_read_temperature_correction(response) ==
    read_and_decode(TemperatureCorrection_ADDRESS, TemperatureCorrection_QUANTITY,
                    "TemperatureCorrection::decode_from_holding_registers", response)

\* An operation that writes whatever word the unchecked encoder returns.
R4DCB08_set_temperature_correction_unchecked(channel, correction, response) ==
    Outcome(map_tokio_result(response),
            <<write_single_register(
                  TemperatureCorrection_channel_address(channel),
                  Temperature_encode_unchecked(correction).val)>>)

\* An operation that writes the correction of the first channel.
R4DCB08_set_temperature_correction_first_channel(channel, correction, response) ==
    LET word == TemperatureCorrection_encode_for_write_register(correction)
    IN  IF ~word.ok
        THEN Outcome(Err(Error_Protocol(word.err)), <<>>)
        ELSE Outcome(map_tokio_result(response),
                     <<write_single_register(TemperatureCorrection_ADDRESS, word.val)>>)

\* The encoding comes first: when it fails, the error is returned and the
\* context is not called.
R4DCB08_set_temperature_correction(channel, correction, response) ==
    LET word == TemperatureCorrection_encode_for_write_register(correction)
    IN  IF ~word.ok
        THEN Outcome(Err(Error_Protocol(word.err)), <<>>)
        ELSE Outcome(map_tokio_result(response),
                     <<write_single_register(
                           TemperatureCorrection_channel_address(channel),
                           word.val)>>)

R4DCB08_read_automatic_report(response) ==
    read_and_decode(AutomaticReport_ADDRESS, AutomaticReport_QUANTITY,
                    "AutomaticReport::decode_from_holding_registers", response)

R4DCB08_read_baud_rate(response) ==
    read_and_decode(BaudRate_ADDRESS, BaudRate_QUANTITY,
                    "BaudRate::decode_from_holding_registers", response)

R4DCB08_set_baud_rate(baud_rate, response) ==
    Outcome(map_tokio_result(response),
            <<write_single_register(BaudRate_ADDRESS,
                                    BaudRate_encode_for_write_register(baud_rate))>>)

R4DCB08_set_automatic_report(report, response) ==
    Outcome(map_tokio_result(response),
            <<write_single_register(AutomaticReport_ADDRESS,
                                    AutomaticReport_encode_for_write_register(report))>>)

R4DCB08_read_address(response) ==
    read_and_decode(Address_ADDRESS, Address_QUANTITY,
                    "Address::decode_from_holding_registers", response)

(***************************************************************************)
(* The thread-safe client (src/src/tokio_sync_safe_client.rs and, with     *)
(* the same structure, src/src/tokio_async_safe_client.rs).  The clones of *)
(* a SafeClient share one Modbus context behind a mutex.  An operation     *)
(* locks the mutex, calls the operation of the same name of                *)
(* src/src/tokio_sync.rs on the context and drops the guard when it        *)
(* returns; set_address also sets the slave id of the context before it    *)
(* returns.                                                                *)
(***************************************************************************)
\* Nobody holds the mutex.
Unlocked == 0

\* A lock that is granted whoever holds the mutex.
Mutex_lock_granted(holder) == TRUE

\* Mutex::lock returns when nobody holds the mutex.
Mutex_lock(holder) == holder = Unlocked

\* Dropping the guard of thread t releases the mutex it holds.
MutexGuard_drop(holder, t) == IF holder = t THEN Unlocked ELSE holder

\* A guard that is dropped once the write has returned.
guard_dropped_after_write(holder, t, result) == MutexGuard_drop(holder, t)

\* The guard of set_address after the write returned: `?` returns, and
\* drops it, on an error; otherwise it lives until the end of the function.
guard_after_write(holder, t, result) ==
    IF result.ok THEN holder ELSE MutexGuard_drop(holder, t)

\* A context that keeps its slave id.
Context_keep_slave(current, new_slave) == current

\* ctx.set_slave(Slave(*new_address))
Context_set_slave(current, new_slave) == new_slave

\* What the operation of tokio_sync.rs that a SafeClient operation wraps
\* does, given the answer the context will give.  R4DCB08::read_address is
\* called by a thread on the context it got from clone_shared and locked.
SafeClient_delegate(op) ==
    IF op.fn = "SafeClient::read_temperatures"
    THEN R4DCB08_read_temperatures(op.arg.response)
    ELSE IF op.fn = "R4DCB08::read_address"
    THEN R4DCB08_read_address(op.arg.response)
    ELSE IF op.fn = "SafeClient::set_temperature_correction"
    THEN R4DCB08_set_temperature_correction(op.arg.channel, op.arg.correction,
                                            op.arg.response)
    ELSE IF op.fn = "SafeClient::factory_reset"
    THEN Outcome(map_tokio_result(op.arg.response), <<R4DCB08_factory_reset>>)
    ELSE Outcome(map_tokio_result(op.arg.response),
                 <<R4DCB08_set_address(op.arg.new_address)>>)

(***************************************************************************)
(* The command line tool, connection RtuScan (src/src/main.rs).  After the *)
(* confirmation it tries the baud rates one after the other: it prints the *)
(* progress text and flushes it, opens the serial port at that rate with   *)
(* the broadcast address as slave id and reads the address register; the   *)
(* first address read ends the scan.  After a failed probe it sleeps       *)
(* check_rtu_delay(args.delay, baud_rate) and goes on.                     *)
(***************************************************************************)
\* The baud rates in ascending order.
baud_rates_ascending == <<"B1200", "B2400", "B4800", "B9600", "B19200">>

baud_rates_to_scan == <<"B19200", "B9600", "B4800", "B2400", "B1200">>

\* A request as the serial line carries it: at a baud rate, to a slave id.
Frame(baud_rate, slave_id, request) ==
    [baud_rate |-> baud_rate, slave |-> slave_id, pdu |-> request]

\* rtu_scan(device_name, baud_rate, timeout): connect_slave opens the port
\* or fails; client.read_address() hands one request to the context, whose
\* answer holds the address, an exception or an error (`??`).
rtu_scan(baud_rate, open, answer) ==
    IF ~open.ok
    THEN Outcome(Err(open.err), <<>>)
    ELSE Outcome(IF ~answer.ok THEN Err(answer.err)
                 ELSE IF ~answer.val.ok THEN Err(answer.val.err)
                 ELSE Address_decode_from_holding_registers(answer.val.val),
                 <<Frame(baud_rate, Address_BROADCAST,
                         read_holding_registers(Address_ADDRESS, Address_QUANTITY))>>)

\* for baud_rate in baud_rates_to_scan { .. } bail!(..), from the i-th rate
\* on; probes[i] holds what the flush, the port and the device answer.
RECURSIVE scan_each(_, _, _, _)
scan_each(i, probes, printed, sent) ==
    IF i > Len(baud_rates_to_scan)
    THEN [exit |-> Err("No R4DCB08 device found across all supported baud rates."),
          stdout |-> printed, wire |-> sent]
    ELSE LET baud_rate == baud_rates_to_scan[i]
             scanning == Append(printed, <<"Scanning at ", BaudRate_into_u16(baud_rate),
                                           " baud ... ">>)
             attempt == rtu_scan(baud_rate, probes[i].open, probes[i].answer)
         IN  IF ~probes[i].flush.ok
             THEN [exit |-> Err(probes[i].flush.err), stdout |-> scanning, wire |-> sent]
             ELSE IF attempt.ret.ok
             THEN [exit |-> Ok(<<>>),
                   stdout |-> scanning \o
                       << <<"SUCCESS!">>,
                          <<"  Device found with RS485 Address: ", attempt.ret.val>>,
                          <<"  Communication established at Baud rate: ",
                            BaudRate_into_u16(baud_rate)>> >>,
                   wire |-> sent \o attempt.wire]
             ELSE scan_each(i + 1, probes, Append(scanning, <<"failed.">>),
                            sent \o attempt.wire)

CliConnection_RtuScan(confirm, probes) ==
    LET warning ==
            << <<"WARNING: This operation should only be performed if a SINGLE R4DCB08 module is connected to the Modbus RTU bus segment.">>,
               <<"Multiple devices may lead to unpredictable behavior or communication errors.">> >>
    IN  IF ~confirm.ok
        THEN [exit |-> Err(confirm.err), stdout |-> warning, wire |-> <<>>]
        ELSE IF ~confirm.val
        THEN [exit |-> Ok(<<>>), stdout |-> warning, wire |-> <<>>]
        ELSE scan_each(1, probes, warning, <<>>)

(***************************************************************************)
(* The delay between Modbus RTU frames of the command line tool            *)
(* (src/src/main.rs).  The code computes 3.5 * (11.0 / rate) * 1_000_000.0 *)
(* in f64 and casts it to u64, which truncates.  For the five baud rates   *)
(* the exact quotient 38_500_000 / rate lies at least 0.16 from a whole    *)
(* number and the f64 result within 1e-9 of it, so the cast gives the      *)
(* whole part of the exact quotient, computed here with integers.          *)
(***************************************************************************)
\* Duration::from_micros and Duration::from_millis
Duration_from_micros(micros) == Duration(micros \div 1000000, (micros % 1000000) * 1000)

Duration_from_millis(millis) == Duration(millis \div 1000, (millis % 1000) * 1000000)

\* impl PartialOrd for Duration: user_delay < min_rtu_delay
Duration_lt(a, b) == a.secs < b.secs \/ (a.secs = b.secs /\ a.nanos < b.nanos)

bits_per_char == 11

PRACTICAL_MIN_INTER_FRAME_DELAY_MICROS == 1750

u64_max(a, b) == IF a >= b THEN a ELSE b

minimum_rtu_delay(baud_rate) ==
    LET rate == BaudRate_into_u16(baud_rate)
        \* 3.5 * (bits_per_char / rate) * 1_000_000.0, truncated
        delay_micros == (35 * bits_per_char * 100000) \div rate
    IN  IF rate = 0
        THEN Duration_from_millis(16)
        ELSE Duration_from_micros(
                 u64_max(delay_micros, PRACTICAL_MIN_INTER_FRAME_DELAY_MICROS))

\* A check that lets every delay of the user through.
check_rtu_delay_unchecked(user_delay, baud_rate) == user_delay

check_rtu_delay(user_delay, baud_rate) ==
    LET min_rtu_delay == minimum_rtu_delay(baud_rate)
    IN  IF Duration_lt(user_delay, min_rtu_delay)
        THEN min_rtu_delay
        ELSE user_delay

(***************************************************************************)
(* The inputs the calls are made with.                                     *)
(***************************************************************************)
\* How far the sampled f32 inputs reach on each side of the points of
\* interest (zero, a mid-range reading, the two ends of the range).
Span == 12

\* The longest word slice handed to a decode function.
MaxSliceLen == 2

\* Word = u16.
Words == 0 .. 65535

\* u8.
Bytes == 0 .. 255

BaudRates == {"B1200", "B2400", "B4800", "B9600", "B19200"}

\* The neighbouring f32 value u steps away in magnitude (u in -1 .. 1).
F32Nudge(x, u) ==
    IF x.cls # "fin" \/ x.m + u < 0 THEN x
    ELSE IF x.m + u = 2^24 THEN F32("fin", x.neg, 2^23, x.e + 1)
    ELSE IF x.m + u < 2^23 /\ x.e > -149 THEN F32("fin", x.neg, 2^24 - 1, x.e - 1)
    ELSE F32("fin", x.neg, x.m + u, x.e)

\* Multiples of 0.025 around the points of interest: every fourth one is a
\* multiple of 0.1, the others lie between two register steps.
FortiethsAround(c) == {F32Div(F32FromInt(n), F32FromInt(40)) : n \in c - Span .. c + Span}

F32Sampled ==
    FortiethsAround(0) \cup FortiethsAround(876) \cup FortiethsAround(-448)
        \cup FortiethsAround(131068) \cup FortiethsAround(-131068)

\* The powers of two below one, of both signs: the normal ones down to
\* 2^-126 and the subnormal ones down to 2^-149.
F32Tiny ==
    {F32("fin", neg, 2^23, -23 - j) : neg \in BOOLEAN, j \in 1 .. 126}
        \cup {F32("fin", neg, 2^i, -149) : neg \in BOOLEAN, i \in 0 .. 22}

F32Inputs ==
    {F32_NAN, F32_INFINITY(FALSE), F32_INFINITY(TRUE), F32_ZERO(FALSE), F32_ZERO(TRUE)}
        \cup {F32Nudge(x, u) : x \in F32Sampled, u \in -1 .. 1}
        \cup F32Tiny

\* Slices of exactly one word hold any word; the others a few chosen words.
SliceWords == {0, 1, 5, 247, 255, 256, 32768, 65535}

WordSlices ==
    {<<w>> : w \in Words}
        \cup UNION {[1 .. n -> SliceWords] : n \in (0 .. MaxSliceLen) \ {1}}

\* What the user can answer to the confirmation prompt: yes, no, or the
\* prompt fails.
Confirms == {Ok(TRUE), Ok(FALSE), Err("dialoguer::Error")}

\* The longest word slice handed to the decode functions of the two arrays.
MaxArrayLen == 9

\* A positive reading, the sensor-error marker and a negative reading.
ArrayWords == {219, 32768, 65424}

\* Slices of every length up to MaxArrayLen, and one with eight different
\* readings.
ArraySlices ==
    UNION {[1 .. n -> ArrayWords] : n \in 0 .. MaxArrayLen}
        \cup {<<219, 65424, 100, 65506, 32767, 32769, 0, 32768>>}

\* The longest duration, in whole seconds, among the consecutive ones.
MaxSecs == 520

\* Durations of 0 .. MaxSecs seconds and a few long ones, each whole, with
\* half a second more, and just below the next second.
Durations ==
    {Duration(secs, nanos) :
        secs \in (0 .. MaxSecs) \cup {65546, 16777226, 2147483647},
        nanos \in {0, 500000000, 900000000, 999999999}}

\* What the Modbus context can answer to a write: the acknowledgement, an
\* exception of the device, a failed exchange.
ExceptionCodes == {"IllegalFunction", "IllegalDataAddress", "IllegalDataValue"}

IoErrorKinds == {"TimedOut", "BrokenPipe", "InvalidData"}

WriteResponses ==
    {Ok(Ok(<<>>))}
        \cup {Ok(Err(code)) : code \in ExceptionCodes}
        \cup {Err(Transport(io_kind)) : io_kind \in IoErrorKinds}
        \cup {Err(ProtocolError("HeaderMismatch"))}

\* What the Modbus context can answer to the read of the temperatures.
ReadResponses ==
    {Ok(Ok(<<219, 65424, 100, 65506, 32767, 32769, 0, 32768>>))}
        \cup {Ok(Err(code)) : code \in ExceptionCodes}
        \cup {Err(Transport(io_kind)) : io_kind \in IoErrorKinds}
        \cup {Err(ProtocolError("HeaderMismatch"))}

\* A run of the FactoryReset command: the answer of the user and the
\* answers of the Modbus context to the read and to the write.
FactoryResetRuns ==
    {[confirm |-> confirm, read |-> read, write |-> write] :
        confirm \in Confirms, read \in ReadResponses, write \in WriteResponses}

\* The clones of the SafeClient, one per thread.
NumClones == 2

Threads == 1 .. NumClones

\* The slave id the shared context is created with: the default address of
\* the device or the broadcast address.
InitialSlaves == {Address_default, Address_BROADCAST}

\* The addresses set_address is called with: the lowest, the next one, the
\* highest and the broadcast constant.
SafeAddresses == {Address_MIN, Address_MIN + 1, Address_MAX, Address_BROADCAST}

\* The corrections set_temperature_correction is called with: the NAN
\* constant and 21.9 degrees.
SafeCorrections == {Temperature_NAN, F32Div(F32FromInt(219), F32FromInt(10))}

\* What the Modbus context can answer to a read: one of the payloads, an
\* exception of the device, a failed exchange.
ReadAnswers(payloads) ==
    {Ok(Ok(words)) : words \in payloads}
        \cup {Ok(Err(code)) : code \in ExceptionCodes}
        \cup {Err(Transport(io_kind)) : io_kind \in IoErrorKinds}
        \cup {Err(ProtocolError("HeaderMismatch"))}

\* What the Modbus context can answer to the read of the address.
AddressResponses ==
    ReadAnswers({<<1>>, <<247>>, <<0>>, <<255>>, <<256>>, <<>>, <<1, 2>>})

\* Answers to the read of one register: one word, none, or two.
RegisterResponses ==
    ReadAnswers({<<w>> : w \in SliceWords} \cup {<<>>, <<1, 2>>})

\* Answers to the read of the eight registers of an array: eight words,
\* seven, nine, or none.
ArrayResponses ==
    ReadAnswers({<<219, 65424, 100, 65506, 32767, 32769, 0, 32768>>,
                 <<219, 65424, 100, 65506, 32767, 32769, 0>>,
                 <<219, 65424, 100, 65506, 32767, 32769, 0, 32768, 219>>,
                 <<>>})

\* The operations a thread calls on its clone, each with its arguments and
\* with the answer the context will give to its request; and one operation
\* of tokio_sync.rs called on the context got from clone_shared.
SafeClientCalls ==
    {[fn |-> "R4DCB08::read_address", arg |-> [response |-> response]] :
        response \in AddressResponses} \cup
    {[fn |-> "SafeClient::read_temperatures", arg |-> [response |-> response]] :
        response \in ReadResponses}
        \cup {[fn |-> "SafeClient::set_temperature_correction",
               arg |-> [channel |-> Channel_MAX, correction |-> correction,
                        response |-> response]] :
                 correction \in SafeCorrections, response \in WriteResponses}
        \cup {[fn |-> "SafeClient::factory_reset", arg |-> [response |-> response]] :
                 response \in WriteResponses}
        \cup {[fn |-> "SafeClient::set_address",
               arg |-> [new_address |-> new_address, response |-> response]] :
                 new_address \in SafeAddresses, response \in WriteResponses}

\* Every Channel: the values try_from accepts.
Channels == Channel_MIN .. Channel_MAX

\* What a probe of the scan meets: the flush of the progress text succeeds
\* or fails, the serial port opens or not, and the context answers the read
\* of the address with an address, an exception or a timeout.
ScanAnswers ==
    {Ok(Ok(<<Address_MIN>>)), Ok(Ok(<<Address_MAX>>)),
     Ok(Err("IllegalFunction")), Err(Transport("TimedOut"))}

ScanProbes ==
    {[flush |-> Ok(<<>>), open |-> Ok(<<>>), answer |-> answer] : answer \in ScanAnswers}
        \cup {[flush |-> Err("io::Error"), open |-> Ok(<<>>),
               answer |-> Err(Transport("TimedOut"))],
              [flush |-> Ok(<<>>), open |-> Err("serialport::Error"),
               answer |-> Err(Transport("TimedOut"))]}

\* A run of the scan: the answer of the user and what each probe meets.
RtuScanRuns ==
    {[confirm |-> confirm, probes |-> probes] :
        confirm \in Confirms,
        probes \in [1 .. Len(baud_rates_to_scan) -> ScanProbes]}

\* The delays of the user: none, short ones, long ones, and delays at and
\* next to the minimum of each baud rate, a microsecond or a nanosecond
\* away, and at and next to 3.5 character times (a third of a microsecond
\* above the minimum at 1200 baud).
UserDelays ==
    {Duration(0, nanos) :
        nanos \in {0, 1, 1749999, 1750000, 3000000, 5000000, 50000000, 999999999}}
        \cup {Duration(1, 0), Duration(2, 500000000)}
        \cup {Duration(0, micros * 1000 + k) :
                 micros \in {32083, 16041, 8020, 4010, 2005},
                 k \in {-1000, -1, 0, 1, 333, 334, 999, 1000}}

(***************************************************************************)
(* The state machine: one action per codec function, client operation and  *)
(* command.  A call takes its argument from the inputs above or, where the *)
(* types fit, from what the previous call returned (a value read back,     *)
(* written back, or built by a validated constructor).                     *)
(***************************************************************************)
NoCall == [fn |-> "none", arg |-> <<>>]

\* An argument supplied by the caller: the first call of a run.
Fresh(S) == IF call = NoCall THEN {[val |-> x, from |-> NoCall] : x \in S} ELSE {}

\* An argument taken from the result of the call before.
Passed(x) == [val |-> x, from |-> call]

\* Temperature has a private field: a value is the NAN constant, the result
\* of try_from or the result of a decode.
TemperatureArgs ==
    Fresh({Temperature_NAN})
        \cup (IF call.fn = "Temperature::try_from" /\ ret.ok
              THEN {Passed(ret.val)} ELSE {})
        \cup (IF call.fn = "Temperature::decode_from_holding_registers"
              THEN {Passed(ret)} ELSE {})

\* A word to decode: any word, or the word just encoded for writing.
TemperatureWordArgs ==
    Fresh(Words)
        \cup (IF /\ call.fn \in {"Temperature::encode_for_write_register",
                                 "TemperatureCorrection::encode_for_write_register"}
                 /\ ret.ok
              THEN {Passed(ret.val)} ELSE {})

BaudRateArgs ==
    Fresh(BaudRates)
        \cup (IF call.fn = "BaudRate::default" THEN {Passed(ret)} ELSE {})
        \cup (IF call.fn = "BaudRate::decode_from_holding_registers" /\ ret.ok
              THEN {Passed(ret.val)} ELSE {})

BaudRateSliceArgs ==
    Fresh(WordSlices)
        \cup (IF call.fn = "BaudRate::encode_for_write_register"
              THEN {Passed(<<ret>>)} ELSE {})

AddressSliceArgs ==
    Fresh(WordSlices)
        \cup (IF call.fn = "Address::encode_for_write_register"
              THEN {Passed(<<ret>>)} ELSE {})

\* Address has a private field too: a value is the BROADCAST constant, the
\* default or the result of try_from or of a decode.
AddressArgs ==
    Fresh({Address_BROADCAST})
        \cup (IF call.fn = "Address::default" THEN {Passed(ret)} ELSE {})
        \cup (IF /\ call.fn \in {"Address::try_from",
                                 "Address::decode_from_holding_registers"}
                 /\ ret.ok
              THEN {Passed(ret.val)} ELSE {})

\* Channel has a private field and no constant: a value is the result of
\* try_from.
ChannelArgs ==
    IF call.fn = "Channel::try_from" /\ ret.ok
    THEN {Passed(ret.val)} ELSE {}

AutomaticReportSliceArgs ==
    Fresh(WordSlices)
        \cup (IF call.fn = "AutomaticReport::encode_for_write_register"
              THEN {Passed(<<ret>>)} ELSE {})

\* AutomaticReport has a private field: a value is the DISABLED constant or
\* the result of from, of try_from or of a decode.
AutomaticReportArgs ==
    Fresh({AutomaticReport_DISABLED})
        \cup (IF call.fn = "AutomaticReport::from" THEN {Passed(ret)} ELSE {})
        \cup (IF /\ call.fn \in {"AutomaticReport::try_from",
                                 "AutomaticReport::decode_from_holding_registers"}
                 /\ ret.ok
              THEN {Passed(ret.val)} ELSE {})

\* The shared context and the threads that use it.
shared == <<mutex, slave, acked, threads>>

\* A thread that is in no SafeClient operation.
Idle == [at |-> "idle", op |-> NoCall, pending |-> <<>>]

\* The arguments of set_temperature_correction: any channel, a correction
\* that is the NAN constant or was built by try_from, and the answer the
\* context gives to the write.
TemperatureCorrectionArgs ==
    LET corrections ==
            Fresh({Temperature_NAN})
                \cup (IF call.fn = "Temperature::try_from" /\ ret.ok
                      THEN {Passed(ret.val)} ELSE {})
    IN  {[val |-> [channel |-> channel, correction |-> c.val, response |-> response],
          from |-> c.from] :
            channel \in Channels, c \in corrections, response \in WriteResponses}

\* An argument of a write operation together with the answer the context
\* gives to the write.
Answered(arguments) ==
    {[val |-> [value |-> a.val, response |-> response], from |-> a.from] :
        a \in arguments, response \in WriteResponses}

\* A call of a codec function: it sends nothing and prints nothing.
Calls(fn, a, result) ==
    /\ call' = [fn |-> fn, arg |-> a.val]
    /\ ret' = result
    /\ prev' = a.from
    /\ UNCHANGED <<wire, stdout>>
    /\ UNCHANGED shared

\* A call of a client operation: it hands one request to the Modbus context
\* and maps the answer.
Sends(fn, a, request, response) ==
    /\ call' = [fn |-> fn, arg |-> a.val]
    /\ ret' = map_tokio_result(response)
    /\ prev' = a.from
    /\ wire' = <<request>>
    /\ UNCHANGED stdout
    /\ UNCHANGED shared

Init ==
    /\ call = NoCall
    /\ ret = <<>>
    /\ prev = NoCall
    /\ wire = <<>>
    /\ stdout = <<>>
    /\ mutex = Unlocked
    /\ slave = Address_default
    /\ acked = slave
    /\ threads = [t \in Threads |-> Idle]

TemperatureTryFrom ==
    \E v \in Fresh(F32Inputs) :
        Calls("Temperature::try_from", v, Temperature_try_from(v.val))

TemperatureDecode ==
    \E a \in TemperatureWordArgs :
        Calls("Temperature::decode_from_holding_registers", a,
              Temperature_decode_from_holding_registers(a.val))

TemperatureEncode ==
    \E a \in TemperatureArgs :
        Calls("Temperature::encode_for_write_register", a,
              Temperature_encode_for_write_register(a.val))

TemperatureCorrectionEncode ==
    \E a \in TemperatureArgs :
        Calls("TemperatureCorrection::encode_for_write_register", a,
              TemperatureCorrection_encode_for_write_register(a.val))

BaudRateDecode ==
    \E a \in BaudRateSliceArgs :
        Calls("BaudRate::decode_from_holding_registers", a,
              BaudRate_decode_from_holding_registers(a.val))

BaudRateEncode ==
    \E a \in BaudRateArgs :
        Calls("BaudRate::encode_for_write_register", a,
              BaudRate_encode_for_write_register(a.val))

BaudRateDefault ==
    \E a \in Fresh({<<>>}) :
        Calls("BaudRate::default", a, BaudRate_default)

AddressTryFrom ==
    \E v \in Fresh(Bytes) :
        Calls("Address::try_from", v, Address_try_from(v.val))

AddressDecode ==
    \E a \in AddressSliceArgs :
        Calls("Address::decode_from_holding_registers", a,
              Address_decode_from_holding_registers(a.val))

AddressEncode ==
    \E a \in AddressArgs :
        Calls("Address::encode_for_write_register", a,
              Address_encode_for_write_register(a.val))

AddressDefault ==
    \E a \in Fresh({<<>>}) :
        Calls("Address::default", a, Address_default)

SetAddress ==
    \E a \in AddressArgs, response \in WriteResponses :
        Sends("R4DCB08::set_address", a, R4DCB08_set_address(a.val), response)

ChannelTryFrom ==
    \E v \in Fresh(Bytes) :
        Calls("Channel::try_from", v, Channel_try_from(v.val))

TemperatureCorrectionChannelAddress ==
    \E a \in ChannelArgs :
        Calls("TemperatureCorrection::channel_address", a,
              TemperatureCorrection_channel_address(a.val))

TemperaturesDecode ==
    \E a \in Fresh(ArraySlices) :
        Calls("Temperatures::decode_from_holding_registers", a,
              Temperatures_decode_from_holding_registers(a.val))

TemperatureCorrectionDecode ==
    \E a \in Fresh(ArraySlices) :
        Calls("TemperatureCorrection::decode_from_holding_registers", a,
              TemperatureCorrection_decode_from_holding_registers(a.val))

AutomaticReportDecode ==
    \E a \in AutomaticReportSliceArgs :
        Calls("AutomaticReport::decode_from_holding_registers", a,
              AutomaticReport_decode_from_holding_registers(a.val))

AutomaticReportFrom ==
    \E v \in Fresh(Bytes) :
        Calls("AutomaticReport::from", v, AutomaticReport_from(v.val))

AutomaticReportEncode ==
    \E a \in AutomaticReportArgs :
        Calls("AutomaticReport::encode_for_write_register", a,
              AutomaticReport_encode_for_write_register(a.val))

AutomaticReportTryFrom ==
    \E v \in Fresh(Durations) :
        Calls("AutomaticReport::try_from", v, AutomaticReport_try_from(v.val))

FactoryResetEncode ==
    \E a \in Fresh({<<>>}) :
        Calls("FactoryReset::encode_for_write_register", a,
              FactoryReset_encode_for_write_register)

FactoryReset ==
    \E a \in Fresh({<<>>}), response \in WriteResponses :
        Sends("R4DCB08::factory_reset", a, R4DCB08_factory_reset, response)

MainFactoryReset ==
    \E a \in Fresh(FactoryResetRuns) :
        LET outcome ==
                CliCommands_FactoryReset(a.val.confirm, a.val.read, a.val.write)
        IN  /\ call' = [fn |-> "CliCommands::FactoryReset", arg |-> a.val]
            /\ ret' = outcome.exit
            /\ prev' = a.from
            /\ wire' = outcome.wire
            /\ stdout' = outcome.stdout
            /\ UNCHANGED shared

\* A call of a client operation of tokio_sync.rs, with the answer the
\* context gives to its request.
Performs(fn, a, outcome) ==
    /\ call' = [fn |-> fn, arg |-> a.val]
    /\ ret' = outcome.ret
    /\ prev' = a.from
    /\ wire' = outcome.wire
    /\ UNCHANGED stdout
    /\ UNCHANGED shared

ReadTemperatures ==
    \E a \in Fresh({[response |-> r] : r \in ArrayResponses}) :
        Performs("R4DCB08::read_temperatures", a,
                 R4DCB08_read_temperatures(a.val.response))

ReadTemperatureCorrection ==
    \E a \in Fresh({[response |-> r] : r \in ArrayResponses}) :
        Performs("R4DCB08::read_temperature_correction", a,
                 R4DCB08_read_temperature_correction(a.val.response))

ReadAutomaticReport ==
    \E a \in Fresh({[response |-> r] : r \in RegisterResponses}) :
        Performs("R4DCB08::read_automatic_report", a,
                 R4DCB08_read_automatic_report(a.val.response))

ReadBaudRate ==
    \E a \in Fresh({[response |-> r] : r \in RegisterResponses}) :
        Performs("R4DCB08::read_baud_rate", a,
                 R4DCB08_read_baud_rate(a.val.response))

ReadAddress ==
    \E a \in Fresh({[response |-> r] : r \in RegisterResponses}) :
        Performs("R4DCB08::read_address", a,
                 R4DCB08_read_address(a.val.response))

SetTemperatureCorrection ==
    \E a \in TemperatureCorrectionArgs :
        Performs("R4DCB08::set_temperature_correction", a,
                 R4DCB08_set_temperature_correction(
                     a.val.channel, a.val.correction, a.val.response))

SetBaudRate ==
    \E a \in Answered(BaudRateArgs) :
        Performs("R4DCB08::set_baud_rate", a,
                 R4DCB08_set_baud_rate(a.val.value, a.val.response))

SetAutomaticReport ==
    \E a \in Answered(AutomaticReportArgs) :
        Performs("R4DCB08::set_automatic_report", a,
                 R4DCB08_set_automatic_report(a.val.value, a.val.response))

MainRtuScan ==
    \E a \in Fresh(RtuScanRuns) :
        LET outcome == CliConnection_RtuScan(a.val.confirm, a.val.probes)
        IN  /\ call' = [fn |-> "CliConnection::RtuScan", arg |-> a.val]
            /\ ret' = outcome.exit
            /\ prev' = a.from
            /\ wire' = outcome.wire
            /\ stdout' = outcome.stdout
            /\ UNCHANGED shared

MinimumRtuDelay ==
    \E a \in Fresh(BaudRates) :
        Calls("minimum_rtu_delay", a, minimum_rtu_delay(a.val))

CheckRtuDelay ==
    \E a \in Fresh({[user_delay |-> d, baud_rate |-> b] :
                        d \in UserDelays, b \in BaudRates}) :
        Calls("check_rtu_delay", a,
              check_rtu_delay(a.val.user_delay, a.val.baud_rate))

Next ==
    \/ TemperatureTryFrom
    \/ TemperatureDecode
    \/ TemperatureEncode
    \/ TemperatureCorrectionEncode
    \/ BaudRateDecode
    \/ BaudRateEncode
    \/ BaudRateDefault
    \/ AddressTryFrom
    \/ AddressDecode
    \/ AddressEncode
    \/ AddressDefault
    \/ SetAddress
    \/ ChannelTryFrom
    \/ TemperatureCorrectionChannelAddress
    \/ TemperaturesDecode
    \/ TemperatureCorrectionDecode
    \/ AutomaticReportDecode
    \/ AutomaticReportFrom
    \/ AutomaticReportEncode
    \/ AutomaticReportTryFrom
    \/ FactoryResetEncode
    \/ FactoryReset
    \/ MainFactoryReset
    \/ ReadTemperatures
    \/ ReadTemperatureCorrection
    \/ ReadAutomaticReport
    \/ ReadBaudRate
    \/ ReadAddress
    \/ SetTemperatureCorrection
    \/ SetBaudRate
    \/ SetAutomaticReport
    \/ MainRtuScan
    \/ MinimumRtuDelay
    \/ CheckRtuDelay

Spec == Init /\ [][Next]_vars

(***************************************************************************)
(* The state machine of the thread-safe client: each thread calls          *)
(* operations on its clone of the SafeClient, one after the other.  A call *)
(* takes the lock and hands its request, stamped with the slave id of the  *)
(* context, to the context; the answer arrives in a later step, and the    *)
(* slave id update of set_address in a step after that.                    *)
(***************************************************************************)
SafeInit ==
    /\ call = NoCall
    /\ ret = <<>>
    /\ prev = NoCall
    /\ wire = <<>>
    /\ stdout = <<>>
    /\ mutex = Unlocked
    /\ slave \in InitialSlaves
    /\ acked = slave
    /\ threads = [t \in Threads |-> Idle]

\* The operation returns to its caller and its guard is dropped.
Returns(t, op, result) ==
    /\ call' = op
    /\ ret' = result
    /\ threads' = [threads EXCEPT ![t] = Idle]

\* A thread calls an operation on its clone, or locks the context it got
\* from clone_shared: it waits in self.ctx.lock().
SafeClientCall ==
    \E t \in Threads :
        /\ threads[t].at = "idle"
        /\ threads' = [threads EXCEPT ![t].at = "locking"]
        /\ UNCHANGED <<call, ret, prev, wire, stdout, mutex, slave, acked>>

\* let mut ctx = self.ctx.lock().unwrap(); then the operation of
\* tokio_sync.rs up to the request it hands to the context, or to the error
\* it returns before that.
SafeClientLock ==
    \E t \in Threads, op \in SafeClientCalls :
        LET outcome == SafeClient_delegate(op)
        IN  /\ threads[t].at = "locking"
            /\ Mutex_lock(mutex)
            /\ IF outcome.wire = <<>>
               THEN /\ Returns(t, op, outcome.ret)
                    /\ UNCHANGED <<mutex, wire>>
               ELSE /\ mutex' = t
                    /\ wire' = <<[slave |-> slave, pdu |-> outcome.wire[1]]>>
                    /\ threads' = [threads EXCEPT ![t] =
                           [at |-> "awaiting", op |-> op, pending |-> outcome.ret]]
                    /\ UNCHANGED <<call, ret>>
            /\ UNCHANGED <<prev, stdout, slave, acked>>

\* The context returns its answer.  Every operation but a set_address
\* whose write succeeded returns it to the caller.
SafeClientAnswer ==
    \E t \in Threads :
        LET op == threads[t].op
            result == threads[t].pending
        IN  /\ threads[t].at = "awaiting"
            /\ IF op.fn = "SafeClient::set_address"
               THEN /\ mutex' = guard_after_write(mutex, t, result)
                    /\ acked' = IF result.ok THEN op.arg.new_address ELSE acked
                    /\ IF result.ok
                       THEN /\ threads' = [threads EXCEPT ![t].at = "set_slave"]
                            /\ UNCHANGED <<call, ret>>
                       ELSE Returns(t, op, result)
               ELSE /\ mutex' = MutexGuard_drop(mutex, t)
                    /\ Returns(t, op, result)
                    /\ UNCHANGED acked
            /\ UNCHANGED <<prev, wire, stdout, slave>>

\* ctx.set_slave(Slave(*new_address)); Ok(())
SafeClientSetSlave ==
    \E t \in Threads :
        LET op == threads[t].op
        IN  /\ threads[t].at = "set_slave"
            /\ slave' = Context_set_slave(slave, op.arg.new_address)
            /\ mutex' = MutexGuard_drop(mutex, t)
            /\ Returns(t, op, Ok(<<>>))
            /\ UNCHANGED <<prev, wire, stdout, acked>>

SafeNext ==
    \/ SafeClientCall
    \/ SafeClientLock
    \/ SafeClientAnswer
    \/ SafeClientSetSlave

SafeSpec == SafeInit /\ [][SafeNext]_vars

(***************************************************************************)
(* Exact arithmetic on f32 values, used to state the properties: the       *)
(* value of a finite x in tenths of a degree is 10 * x.m * 2^x.e.          *)
(***************************************************************************)
Abs(i) == IF i < 0 THEN -i ELSE i

\* floor(|10 x|), for a finite x below 2^23 in magnitude.
TenthsFloor(x) ==
    IF x.m = 0 \/ x.e < -30 THEN 0 ELSE (10 * x.m) \div 2^(-x.e)

\* Whether |10 x| is an integer.
TenthsWhole(x) ==
    IF x.m = 0 THEN TRUE
    ELSE IF x.e < -30 THEN FALSE
    ELSE (10 * x.m) % 2^(-x.e) = 0

\* The integers nearest to |10 x| (two of them when |10 x| ends in .5).
TenthsNearest(x) ==
    IF x.m = 0 \/ x.e < -30 THEN {0}
    ELSE LET r == 2 * ((10 * x.m) % 2^(-x.e))
         IN  IF r < 2^(-x.e) THEN {TenthsFloor(x)}
             ELSE IF r > 2^(-x.e) THEN {TenthsFloor(x) + 1}
             ELSE {TenthsFloor(x), TenthsFloor(x) + 1}

\* x is the f32 value nearest to k / 10: x has the sign of k and lies within
\* half a unit in the last place of k / 10.
IsTenths(x, k) ==
    /\ x.cls = "fin"
    /\ IF k = 0 THEN x.m = 0
       ELSE /\ x.neg = (k < 0)
            /\ x.m > 0
            /\ x.e < 0
            /\ x.e >= -30
            /\ Abs(k) < 2^(30 + x.e)
            /\ Abs(10 * x.m - Abs(k) * 2^(-x.e)) <= 5

\* x lies on the register grid: it is the f32 nearest to some k / 10.
OnGrid(x) ==
    /\ x.cls = "fin"
    /\ \E k \in TenthsNearest(x) : IsTenths(x, IF x.neg THEN -k ELSE k)

\* -3276.7 <= x <= 3276.7 in exact arithmetic: 10 |x| <= 32767.
InDegreeRange(x) ==
    /\ x.cls = "fin"
    /\ \/ x.m = 0
       \/ x.e < -12
       \/ x.e = -12 /\ 10 * x.m <= 32767 * 2^12

TemperatureEncodes ==
    {"Temperature::encode_for_write_register",
     "TemperatureCorrection::encode_for_write_register"}

(***************************************************************************)
(* C1.  Temperature::decode_from_holding_registers(w) is NaN exactly when  *)
(* w = 0x8000; for w > 0x8000 it is the negative value (w - 65536) / 10    *)
(* and for w < 0x8000 it is w / 10 (the f32 nearest to that many tenths).  *)
(***************************************************************************)
C1_DecodeRule ==
    call.fn = "Temperature::decode_from_holding_registers" =>
        /\ is_nan(ret) <=> call.arg = 32768
        /\ call.arg > 32768 => IsTenths(ret, call.arg - 65536) /\ ret.neg
        /\ call.arg < 32768 => IsTenths(ret, call.arg) /\ ~ret.neg

C1_Witness ==
    /\ call.fn = "Temperature::decode_from_holding_registers"
    /\ call.arg = 65424
    /\ prev = NoCall
    /\ IsTenths(ret, -112)

(***************************************************************************)
(* C2.  Round trip: for every valid non-NaN Temperature t, decoding the    *)
(* word returned by encode_for_write_register yields t again to within     *)
(* the 0.1 degree quantisation: the decoded value is a whole number k of   *)
(* tenths with |k - 10 t| < 1, and it is t itself when t lies on the       *)
(* register grid.                                                          *)
(***************************************************************************)
C2_RoundTrip ==
    (/\ call.fn = "Temperature::decode_from_holding_registers"
     /\ prev.fn \in TemperatureEncodes) =>
        LET t == prev.arg
            f == TenthsFloor(t)
            c == IF TenthsWhole(t) THEN f ELSE f + 1
            lo == IF t.neg THEN -c ELSE f
            hi == IF t.neg THEN -f ELSE c
        IN  /\ ~is_nan(ret)
            /\ \E k \in lo .. hi : IsTenths(ret, k)
            /\ OnGrid(t) => F32Eq(ret, t)

C2_Witness ==
    /\ call.fn = "Temperature::decode_from_holding_registers"
    /\ prev.fn = "Temperature::encode_for_write_register"
    /\ prev.arg = F32Div(F32FromInt(-449), F32FromInt(40))
    /\ ~OnGrid(prev.arg)
    /\ IsTenths(ret, -113)

(***************************************************************************)
(* C3.  For every valid non-NaN Temperature v, encode_for_write_register   *)
(* returns round(v * 10) as an unsigned word when v is non-negative and    *)
(* (65536 + round(v * 10)) truncated to 16 bits when v is negative:        *)
(* rounding to the nearest tenth, not truncating.                          *)
(***************************************************************************)
C3_EncodeRounds ==
    (/\ call.fn = "Temperature::encode_for_write_register"
     /\ ~is_nan(call.arg)) =>
        /\ ret.ok
        /\ \E r \in TenthsNearest(call.arg) :
               ret.val = IF F32Ge(call.arg, F32_ZERO(FALSE))
                         THEN r
                         ELSE (65536 - r) % 65536

(***************************************************************************)
(* C4.  The codec is exact at the range boundaries: encode(MAX = 3276.7)   *)
(* = 0x7FFF and encode(MIN = -3276.7) = 0x8001, decode(0x7FFF) = 3276.7    *)
(* and decode(0x8001) = -3276.7; 0x8000 is never the encoding of MIN.      *)
(***************************************************************************)
C4_Boundaries ==
    /\ (call.fn \in TemperatureEncodes /\ F32Eq(call.arg, Temperature_MAX)) =>
           ret = Ok(32767)
    /\ (call.fn \in TemperatureEncodes /\ F32Eq(call.arg, Temperature_MIN)) =>
           ret = Ok(32769) /\ ret.val # 32768
    /\ (call.fn = "Temperature::decode_from_holding_registers" /\ call.arg = 32767) =>
           ret = Temperature_MAX /\ IsTenths(ret, 32767)
    /\ (call.fn = "Temperature::decode_from_holding_registers" /\ call.arg = 32769) =>
           ret = Temperature_MIN /\ IsTenths(ret, -32767)

C4_Witness ==
    /\ call.fn = "Temperature::encode_for_write_register"
    /\ prev.fn = "Temperature::try_from"
    /\ call.arg = Temperature_MIN
    /\ ret = Ok(32769)

C7_BaudRateDecode ==
    (call.fn = "BaudRate::decode_from_holding_registers" /\ Len(call.arg) = 1) =>
        LET code == call.arg[1] IN
        /\ ret.ok <=> code \in 0 .. 4
        /\ ret.ok =>
               BaudRate_into_u16(ret.val) = <<1200, 2400, 4800, 9600, 19200>>[code + 1]
        /\ ~ret.ok => ret.err = InvalidValueCode("BaudRate", code)

C7_Witness ==
    /\ call.fn = "BaudRate::decode_from_holding_registers"
    /\ call.arg = <<5>>
    /\ ~ret.ok
    /\ ret.err.code = 5

(***************************************************************************)
(* C8.  BaudRate encode and decode are inverse: decode([encode(b)]) = b    *)
(* for every BaudRate b, encode(decode([c])) = c for every code c in       *)
(* 0..4, and the default BaudRate (9600) encodes to 3.                     *)
(***************************************************************************)
C8_BaudRateInverse ==
    /\ (/\ call.fn = "BaudRate::decode_from_holding_registers"
        /\ prev.fn = "BaudRate::encode_for_write_register") =>
           ret = Ok(prev.arg)
    /\ (/\ call.fn = "BaudRate::encode_for_write_register"
        /\ prev.fn = "BaudRate::decode_from_holding_registers") =>
           ret = prev.arg[1] /\ ret \in 0 .. 4
    /\ (/\ call.fn = "BaudRate::encode_for_write_register"
        /\ prev.fn = "BaudRate::default") =>
           ret = 3 /\ BaudRate_into_u16(call.arg) = 9600

C8_Witness ==
    /\ call.fn = "BaudRate::decode_from_holding_registers"
    /\ prev.fn = "BaudRate::encode_for_write_register"
    /\ prev.arg = "B19200"
    /\ call.arg = <<4>>
    /\ ret = Ok("B19200")

(***************************************************************************)
(* C9 as stated.  Address::decode_from_holding_registers on a one-word     *)
(* slice fails with a data-invalid error if the upper byte is non-zero;    *)
(* otherwise, if the lower byte is outside 1..247, it fails with an        *)
(* out-of-range error distinct from the data-invalid error; otherwise it   *)
(* returns the Address holding the lower byte.                             *)
(***************************************************************************)
C9_AsStated ==
    (call.fn = "Address::decode_from_holding_registers" /\ Len(call.arg) = 1) =>
        LET word == call.arg[1] IN
        IF word \div 256 # 0
        THEN ~ret.ok /\ ret.err.kind = "InvalidData"
        ELSE IF word % 256 \notin 1 .. 247
        THEN ~ret.ok /\ ret.err.kind # "InvalidData"
        ELSE ret = Ok(word % 256)

(***************************************************************************)
(* C9 as amended.  Address::decode_from_holding_registers on a one-word    *)
(* slice fails with InvalidData if the upper byte is non-zero; otherwise,  *)
(* if the lower byte is outside 1..247, it fails with InvalidData too,     *)
(* whose details are the message of ErrorAddressOutOfRange for that byte   *)
(* and so differ from the upper-byte details; otherwise it returns the     *)
(* Address holding the lower byte.                                         *)
(***************************************************************************)
C9_AddressDecode ==
    (call.fn = "Address::decode_from_holding_registers" /\ Len(call.arg) = 1) =>
        LET word == call.arg[1] IN
        IF word \div 256 # 0
        THEN /\ ~ret.ok
             /\ ret.err.kind = "InvalidData"
             /\ ret.err.details[1] =
                    "Upper byte of address register is non-zero (value: "
             /\ ret.err.details[2] = word
        ELSE IF word % 256 \notin 1 .. 247
        THEN /\ ~ret.ok
             /\ ret.err.kind = "InvalidData"
             /\ ret.err.details[1] = "The address value "
             /\ ret.err.details[2] = word % 256
        ELSE ret = Ok(word % 256)

C9_Witness ==
    /\ call.fn = "Address::decode_from_holding_registers"
    /\ call.arg = <<255>>
    /\ ~ret.ok
    /\ ret.err.kind = "InvalidData"
    /\ ret.err.details[2] = 255

(***************************************************************************)
(* C10.  Address::try_from(v) succeeds exactly when 1 <= v <= 247 and the  *)
(* result holds v; for v = 0 and every v in 248..255, the broadcast value  *)
(* 255 included, it fails with ErrorAddressOutOfRange carrying v.  No      *)
(* Address returned by try_from or by decode holds 0 or 255.               *)
(***************************************************************************)
C10_AddressTryFrom ==
    /\ call.fn = "Address::try_from" =>
           /\ ret.ok <=> call.arg \in 1 .. 247
           /\ ret.ok => ret.val = call.arg
           /\ ~ret.ok => ret.err = ErrorAddressOutOfRange(call.arg)
    /\ (/\ call.fn \in {"Address::try_from", "Address::decode_from_holding_registers"}
        /\ ret.ok) =>
           ret.val \notin {0, 255}

C10_Witness ==
    /\ call.fn = "Address::try_from"
    /\ call.arg = 255
    /\ ~ret.ok
    /\ ret.err = ErrorAddressOutOfRange(255)

(***************************************************************************)
(* C11.  The broadcast address 255 cannot be assigned to a device as its   *)
(* permanent address: for every Address a caller can pass to set_address,  *)
(* the word written to the device-address register 0x00FE lies in 1..247.  *)
(***************************************************************************)
C11_WrittenAddressAssignable ==
    call.fn = "R4DCB08::set_address" =>
        /\ Len(wire) = 1
        /\ wire[1].fc = "write_single_register"
        /\ wire[1].address = 254
        /\ wire[1].word \in 1 .. 247

(***************************************************************************)
(* C12.  Channel::try_from(v) succeeds exactly when 0 <= v <= 7 and the    *)
(* result holds v; for every v in 8..255 it fails with                     *)
(* ErrorChannelOutOfRange carrying v.  Every Channel value, the ones       *)
(* passed on to other functions included, is therefore a valid index into  *)
(* the 8-element temperature arrays.                                       *)
(***************************************************************************)
C12_ChannelTryFrom ==
    /\ call.fn = "Channel::try_from" =>
           /\ ret.ok <=> call.arg \in 0 .. 7
           /\ ret.ok => ret.val = call.arg /\ ret.val < NUMBER_OF_CHANNELS
           /\ ~ret.ok => ret.err = ErrorChannelOutOfRange(call.arg)
    /\ \A a \in ChannelArgs : a.val \in 0 .. NUMBER_OF_CHANNELS - 1

C12_Witness ==
    /\ call.fn = "Channel::try_from"
    /\ call.arg = 8
    /\ ret = Err(ErrorChannelOutOfRange(8))

(***************************************************************************)
(* C13.  For every valid Channel c (0..7),                                 *)
(* TemperatureCorrection::channel_address(c) = 0x0008 + c; the result      *)
(* always lies in 0x0008..0x000F, so it never falls in the                 *)
(* temperature-reading range 0x0000..0x0007 nor on the configuration       *)
(* registers 0x00FD..0x00FF.                                               *)
(***************************************************************************)
C13_ChannelAddress ==
    call.fn = "TemperatureCorrection::channel_address" =>
        /\ call.arg \in 0 .. 7
        /\ ret = 8 + call.arg
        /\ ret \in 8 .. 15
        /\ ret \notin Temperatures_ADDRESS .. Temperatures_ADDRESS + NUMBER_OF_CHANNELS - 1
        /\ ret \notin 253 .. 255
        /\ ret \notin {AutomaticReport_ADDRESS, Address_ADDRESS, BaudRate_ADDRESS}

C13_Witness ==
    /\ call.fn = "TemperatureCorrection::channel_address"
    /\ prev = [fn |-> "Channel::try_from", arg |-> 7]
    /\ call.arg = 7
    /\ ret = 15

(***************************************************************************)
(* C14.  For each decodable type (BaudRate, Address, AutomaticReport with  *)
(* QUANTITY 1; Temperatures, TemperatureCorrection with QUANTITY 8),       *)
(* decoding a slice whose length differs from QUANTITY fails with          *)
(* UnexpectedDataLength carrying expected = QUANTITY and got = the actual  *)
(* length, whatever the words are; a slice of exactly QUANTITY words never *)
(* produces that error, and an 8-word slice always decodes successfully    *)
(* for the two array types.                                                *)
(***************************************************************************)
C14_Quantity ==
    [f \in {"BaudRate::decode_from_holding_registers",
            "Address::decode_from_holding_registers",
            "AutomaticReport::decode_from_holding_registers",
            "Temperatures::decode_from_holding_registers",
            "TemperatureCorrection::decode_from_holding_registers"} |->
        IF f \in {"Temperatures::decode_from_holding_registers",
                  "TemperatureCorrection::decode_from_holding_registers"}
        THEN 8 ELSE 1]

C14_DataLength ==
    call.fn \in DOMAIN C14_Quantity =>
        LET quantity == C14_Quantity[call.fn]
            got == Len(call.arg)
        IN  /\ ~Panicked(ret)
            /\ got # quantity => ret = Err(UnexpectedDataLength(quantity, got))
            /\ got = quantity => ret.ok \/ ret.err.kind # "UnexpectedDataLength"
            /\ (got = quantity /\ quantity = 8) => ret.ok /\ Len(ret.val) = 8

C14_Witness ==
    /\ call.fn = "Temperatures::decode_from_holding_registers"
    /\ Len(call.arg) = 9
    /\ call.arg[9] = 32768
    /\ ret = Err(UnexpectedDataLength(8, 9))

(***************************************************************************)
(* C15.  Decoding an 8-word slice as Temperatures or TemperatureCorrection *)
(* decodes each element independently and in place: for every index i in  *)
(* 0..7 the i-th result equals                                             *)
(* Temperature::decode_from_holding_registers(words[i]), so a NaN (0x8000) *)
(* in one channel does not affect any other channel and channel index      *)
(* equals array index.                                                     *)
(***************************************************************************)
C15_ElementWise ==
    (/\ call.fn \in {"Temperatures::decode_from_holding_registers",
                     "TemperatureCorrection::decode_from_holding_registers"}
     /\ Len(call.arg) = 8) =>
        /\ ~Panicked(ret)
        /\ ret.ok
        /\ DOMAIN ret.val = 1 .. 8
        /\ \A i \in 1 .. 8 :
               /\ ret.val[i] = Temperature_decode_from_holding_registers(call.arg[i])
               /\ is_nan(ret.val[i]) <=> call.arg[i] = 32768

C15_Witness ==
    /\ call.fn = "TemperatureCorrection::decode_from_holding_registers"
    /\ call.arg = <<219, 65424, 100, 65506, 32767, 32769, 0, 32768>>
    /\ ret.ok
    /\ ret.val[1] = F32Literal(219)
    /\ ret.val[2] = F32Literal(-112)
    /\ ret.val[7] = F32_ZERO(FALSE)
    /\ is_nan(ret.val[8])

(***************************************************************************)
(* C16.  AutomaticReport::decode_from_holding_registers on a one-word      *)
(* slice fails with InvalidData when the upper byte of the word is         *)
(* non-zero (e.g. 0x0100), and otherwise returns the interval equal to the *)
(* lower byte (0..255 seconds, 0 meaning disabled); encoding that interval *)
(* returns the same word.                                                  *)
(***************************************************************************)
C16_AutomaticReportDecode ==
    /\ (/\ call.fn = "AutomaticReport::decode_from_holding_registers"
        /\ Len(call.arg) = 1) =>
           LET word == call.arg[1] IN
           /\ ~Panicked(ret)
           /\ IF word \div 256 # 0
              THEN /\ ~ret.ok
                   /\ ret.err.kind = "InvalidData"
                   /\ ret.err.details[2] = word
              ELSE /\ ret = Ok(word % 256)
                   /\ ret.val \in 0 .. 255
                   /\ ret.val = AutomaticReport_DISABLED <=> word = 0
    /\ (/\ call.fn = "AutomaticReport::encode_for_write_register"
        /\ prev.fn = "AutomaticReport::decode_from_holding_registers") =>
           /\ ret = prev.arg[1]
           /\ ret = call.arg

C16_Witness ==
    /\ call.fn = "AutomaticReport::encode_for_write_register"
    /\ prev = [fn |-> "AutomaticReport::decode_from_holding_registers",
               arg |-> <<255>>]
    /\ call.arg = 255
    /\ ret = 255

(***************************************************************************)
(* C17.  AutomaticReport::try_from(Duration d) first truncates d to whole  *)
(* seconds s; it succeeds with interval s exactly when s <= 255 (so 10.5 s *)
(* gives 10 and 255.9 s gives 255), and otherwise fails with               *)
(* ErrorDurationOutOfRange carrying the truncated seconds s (e.g. 256),    *)
(* never a wrapped or clamped interval.                                    *)
(***************************************************************************)
C17_TryFromDuration ==
    call.fn = "AutomaticReport::try_from" =>
        \* d = s + nanos / 10^9 with 0 <= nanos < 10^9, so s is d truncated
        LET s == call.arg.secs IN
        /\ call.arg.nanos \in 0 .. 999999999
        /\ ret.ok <=> s <= 255
        /\ ret.ok => ret.val = s
        /\ ~ret.ok => ret.err = ErrorDurationOutOfRange(s)

C17_Witness ==
    /\ call.fn = "AutomaticReport::try_from"
    /\ call.arg = Duration(255, 900000000)
    /\ ret = Ok(255)

(***************************************************************************)
(* C18.  FactoryReset::encode_for_write_register always returns the fixed  *)
(* sentinel word 5, and FactoryReset::ADDRESS equals BaudRate::ADDRESS     *)
(* (0x00FF); the factory_reset client operation writes exactly that word   *)
(* to exactly that register.                                               *)
(***************************************************************************)
C18_FactoryReset ==
    /\ FactoryReset_ADDRESS = BaudRate_ADDRESS
    /\ FactoryReset_ADDRESS = 255
    /\ call.fn = "FactoryReset::encode_for_write_register" => ret = 5
    /\ call.fn = "R4DCB08::factory_reset" =>
           wire = <<[fc |-> "write_single_register", address |-> 255, word |-> 5]>>

C18_Witness ==
    /\ call.fn = "R4DCB08::factory_reset"
    /\ wire[1].address = 255
    /\ wire[1].word = 5
    /\ ret = Ok(<<>>)

(***************************************************************************)
(* C19.  No codec function aborts on caller-supplied data: for every word  *)
(* slice of any length and any word values, each decode function           *)
(* (BaudRate, Address, AutomaticReport, Temperatures,                      *)
(* TemperatureCorrection), and for every input each fallible constructor   *)
(* and encode function, returns either a value or an error value.          *)
(***************************************************************************)
C19_Fallible ==
    {"BaudRate::decode_from_holding_registers",
     "Address::decode_from_holding_registers",
     "AutomaticReport::decode_from_holding_registers",
     "Temperatures::decode_from_holding_registers",
     "TemperatureCorrection::decode_from_holding_registers",
     "Temperature::try_from", "Address::try_from", "Channel::try_from",
     "AutomaticReport::try_from",
     "Temperature::encode_for_write_register",
     "TemperatureCorrection::encode_for_write_register"}

C19_Infallible ==
    {"BaudRate::encode_for_write_register",
     "Address::encode_for_write_register",
     "AutomaticReport::encode_for_write_register",
     "FactoryReset::encode_for_write_register",
     "TemperatureCorrection::channel_address"}

C19_ErrorKinds ==
    {"UnexpectedDataLength", "InvalidData", "InvalidValueCode", "EncodeError",
     "ErrorDegreeCelsiusOutOfRange", "ErrorAddressOutOfRange",
     "ErrorChannelOutOfRange", "ErrorDurationOutOfRange"}

C19_NoPanic ==
    /\ call.fn \in C19_Fallible =>
           /\ ~Panicked(ret)
           /\ DOMAIN ret \in {{"ok", "val"}, {"ok", "err"}}
           /\ ret.ok <=> "val" \in DOMAIN ret
           /\ ~ret.ok => ret.err.kind \in C19_ErrorKinds
    /\ call.fn \in C19_Infallible => ret \in 0 .. 65535
    /\ call.fn = "Temperature::decode_from_holding_registers" =>
           ret.cls \in {"nan", "fin"}

C19_Witness ==
    /\ call.fn = "AutomaticReport::decode_from_holding_registers"
    /\ call.arg = <<>>
    /\ ret = Err(UnexpectedDataLength(1, 0))

(***************************************************************************)
(* C20.  In the CLI FactoryReset command, when the factory-reset write     *)
(* fails with a transport timeout the command is treated as successful     *)
(* (success message, exit Ok); any other failure of that write (other      *)
(* transport error or Modbus exception) is reported as a failure.          *)
(***************************************************************************)
C20_SuccessPrinted ==
    \E i \in DOMAIN stdout : stdout[i] = "Factory reset command sent successfully."

C20_OnlyTimeoutIgnored ==
    (/\ call.fn = "CliCommands::FactoryReset"
     /\ Len(wire) = 2
     /\ wire[2] = write_single_register(255, 5)) =>
        LET write == call.arg.write
            acknowledged == write.ok /\ write.val.ok
            timed_out == ~write.ok /\ write.err = Transport("TimedOut")
        IN  IF acknowledged \/ timed_out
            THEN ret = Ok(<<>>) /\ C20_SuccessPrinted
            ELSE ~ret.ok /\ ~C20_SuccessPrinted

\* No thread is in an operation.
Quiescent == \A t \in Threads : threads[t].at = "idle"

(***************************************************************************)
(* C21.  After any sequence of SafeClient operations, the slave id of the  *)
(* shared context equals the address of the most recent set_address call   *)
(* that succeeded (the slave id the context was created with if none       *)
(* did); a set_address whose write failed returns the error of the write   *)
(* and leaves the slave id as it was.                                      *)
(***************************************************************************)
C21_SlaveTracksAddress ==
    /\ Quiescent => slave = acked
    /\ call.fn = "SafeClient::set_address" =>
           /\ ret.ok <=> call.arg.response = Ok(Ok(<<>>))
           /\ ret.ok /\ Quiescent => slave = call.arg.new_address
           /\ ~ret.ok => ret = map_tokio_result(call.arg.response)

C21_Witness ==
    /\ Quiescent
    /\ call.fn = "SafeClient::set_address"
    /\ ~ret.ok
    /\ slave = Address_MAX
    /\ slave \notin InitialSlaves

(***************************************************************************)
(* C22.  Operations invoked concurrently through clones of one SafeClient, *)
(* or on the context obtained with clone_shared and locked, are serialized *)
(* by the mutex of the context: the thread whose request the context is    *)
(* working on holds the mutex, and no other thread has a request           *)
(* outstanding or is past its lock at that time.  A transaction lasts from *)
(* the call of the context to its return.                                  *)
(***************************************************************************)
C22_Serialized ==
    \A t \in Threads :
        threads[t].at \in {"awaiting", "set_slave"} =>
            /\ mutex = t
            /\ \A u \in Threads \ {t} : threads[u].at \in {"idle", "locking"}

C22_Witness ==
    \E t \in Threads, u \in Threads :
        /\ threads[t].at = "awaiting"
        /\ threads[t].op.fn = "R4DCB08::read_address"
        /\ threads[u].at = "locking"
        /\ call.fn = "SafeClient::read_temperatures"

\* The read operations of the client and the decoder of each.
ReadOperations ==
    [f \in {"R4DCB08::read_temperatures", "R4DCB08::read_temperature_correction",
            "R4DCB08::read_automatic_report", "R4DCB08::read_baud_rate",
            "R4DCB08::read_address"} |->
        CASE f = "R4DCB08::read_temperatures" ->
                 "Temperatures::decode_from_holding_registers"
          [] f = "R4DCB08::read_temperature_correction" ->
                 "TemperatureCorrection::decode_from_holding_registers"
          [] f = "R4DCB08::read_automatic_report" ->
                 "AutomaticReport::decode_from_holding_registers"
          [] f = "R4DCB08::read_baud_rate" ->
                 "BaudRate::decode_from_holding_registers"
          [] f = "R4DCB08::read_address" ->
                 "Address::decode_from_holding_registers"]

\* The device answered the read with words the decoder rejects.
C23_Rejected ==
    /\ call.fn \in DOMAIN ReadOperations
    /\ call.arg.response.ok
    /\ call.arg.response.val.ok
    /\ ~decoder(ReadOperations[call.fn], call.arg.response.val.val).ok

(***************************************************************************)
(* C23.  When the device answers a read with an unexpected number of       *)
(* registers or with malformed data (non-zero upper byte, invalid baud     *)
(* code, out-of-range address), the read operation reports it as a         *)
(* tokio_modbus transport error whose io::ErrorKind is InvalidData.        *)
(***************************************************************************)
C23_ReportedAsInvalidData ==
    C23_Rejected => ret = Err(Error_Modbus(Transport("InvalidData")))

(***************************************************************************)
(* C24.  set_temperature_correction called with Temperature::NAN returns   *)
(* the EncodeError of the encoder, as Error::Protocol, and hands no        *)
(* request to the context, whatever the channel: the failure is detected   *)
(* before write_single_register is called, so no register of the device    *)
(* is written.                                                             *)
(***************************************************************************)
C24_NanNotWritten ==
    call.fn = "R4DCB08::set_temperature_correction" /\ is_nan(call.arg.correction) =>
        /\ ~Panicked(ret)
        /\ ~ret.ok
        /\ ret.err = Error_Protocol(
               EncodeError("Temperature value is NAN, which cannot be encoded."))
        /\ wire = <<>>

C24_Witness ==
    /\ call.fn = "R4DCB08::set_temperature_correction"
    /\ is_nan(call.arg.correction)
    /\ call.arg.channel = Channel_MAX
    /\ call.arg.response = Ok(Ok(<<>>))
    /\ ~ret.ok

(***************************************************************************)
(* C25.  set_temperature_correction(channel, t) with a non-NaN t hands     *)
(* exactly one request to the context: a write_single_register to address  *)
(* 0x0008 + channel with the word encode(t).  The correction registers of  *)
(* the other seven channels, the temperature registers 0x0000..0x0007 and  *)
(* the configuration registers 0x00FD..0x00FF are not written.             *)
(***************************************************************************)
C25_OneChannelWritten ==
    call.fn = "R4DCB08::set_temperature_correction" /\ ~is_nan(call.arg.correction) =>
        /\ Len(wire) = 1
        /\ wire[1].fc = "write_single_register"
        /\ wire[1].address = 8 + call.arg.channel
        /\ wire[1].word =
               Temperature_encode_for_write_register(call.arg.correction).val
        /\ \A other \in Channels \ {call.arg.channel} :
               wire[1].address # TemperatureCorrection_ADDRESS + other
        /\ wire[1].address \notin
               (Temperatures_ADDRESS .. Temperatures_ADDRESS + 7)
                   \cup {AutomaticReport_ADDRESS, Address_ADDRESS, BaudRate_ADDRESS}

C25_Witness ==
    /\ call.fn = "R4DCB08::set_temperature_correction"
    /\ call.arg.correction.cls = "fin"
    /\ call.arg.correction.neg
    /\ call.arg.channel = 5
    /\ wire = <<write_single_register(13, wire[1].word)>>
    /\ wire[1].word > 32768
    /\ ~ret.ok

\* The requests on the wire that write the factory-reset word 5 to the
\* register 0x00FF.
C26_ResetWrites ==
    {i \in 1 .. Len(wire) : wire[i] = write_single_register(255, 5)}

(***************************************************************************)
(* C26.  No BaudRate encodes to the factory-reset word: for every BaudRate *)
(* b, b.encode_for_write_register() lies in 0..4 and differs from          *)
(* FactoryReset's word 5, so set_baud_rate writes a word of 0..4 to the    *)
(* register 0x00FF and never 5; of all the operations, only factory_reset  *)
(* (and the command that calls it) writes 5 to that register.              *)
(***************************************************************************)
C26_NoBaudRateResets ==
    /\ call.fn = "BaudRate::encode_for_write_register" =>
           ret \in 0 .. 4 /\ ret # FactoryReset_encode_for_write_register
    /\ call.fn = "R4DCB08::set_baud_rate" =>
           /\ Len(wire) = 1
           /\ wire[1].fc = "write_single_register"
           /\ wire[1].address = 255
           /\ wire[1].word \in 0 .. 4
           /\ wire[1].word = BaudRate_encode_for_write_register(call.arg.value)
    /\ C26_ResetWrites # {} =>
           call.fn \in {"R4DCB08::factory_reset", "CliCommands::FactoryReset"}

C26_Witness ==
    /\ call.fn = "R4DCB08::set_baud_rate"
    /\ call.arg.value = "B19200"
    /\ prev.fn = "BaudRate::decode_from_holding_registers"
    /\ wire = <<write_single_register(FactoryReset_ADDRESS, 4)>>
    /\ ret.ok

(***************************************************************************)
(* C27.  SafeClient::set_address holds the lock of the context from before *)
(* the address write until after the slave id update: while the update is  *)
(* pending the writing thread holds the mutex, and every request handed to *)
(* the context carries the address the device acknowledged last (the slave *)
(* id the context was created with if it acknowledged none), never the     *)
(* stale one.                                                              *)
(***************************************************************************)
C27_NoStaleRequest ==
    \A t \in Threads :
        /\ threads[t].at = "set_slave" => mutex = t
        /\ threads[t].at = "awaiting" =>
               /\ Len(wire) = 1
               /\ wire[1].pdu = SafeClient_delegate(threads[t].op).wire[1]
               /\ wire[1].slave = acked

C27_Witness ==
    \E t \in Threads, u \in Threads :
        /\ threads[t].at = "set_slave"
        /\ threads[u].at = "locking"
        /\ slave # acked
        /\ acked = threads[t].op.arg.new_address
        /\ call.fn = "SafeClient::set_address"
        /\ ret.ok

\* The order the claim gives for the baud rates.
C28_Order == <<"B19200", "B9600", "B4800", "B2400", "B1200">>

\* The read-address request of a probe at the i-th rate, to the broadcast
\* address.
C28_Request(i) == Frame(C28_Order[i], 255, read_holding_registers(254, 1))

\* The device answered the probe with an address.
C28_Found(probe) ==
    probe.flush.ok /\ probe.open.ok /\ probe.answer.ok /\ probe.answer.val.ok

\* The probe failed: the port did not open, or the read failed.
C28_Failed(probe) ==
    probe.flush.ok /\ ~(probe.open.ok /\ probe.answer.ok /\ probe.answer.val.ok)

\* The number of probes begun: one progress text is printed for each.
C28_Probed ==
    Cardinality({i \in 1 .. Len(stdout) : stdout[i][1] = "Scanning at "})

\* The last three lines printed report the address and the baud rate.
C28_Reports(address, baud) ==
    /\ Len(stdout) >= 3
    /\ stdout[Len(stdout) - 2] = <<"SUCCESS!">>
    /\ stdout[Len(stdout) - 1] = <<"  Device found with RS485 Address: ", address>>
    /\ stdout[Len(stdout)] = <<"  Communication established at Baud rate: ", baud>>

(***************************************************************************)
(* C28 as stated.  The RTU scan, once the user has confirmed, probes the   *)
(* baud rates in the order 19200, 9600, 4800, 2400, 1200, each with one    *)
(* read-address request sent to the broadcast address 255; it stops at the *)
(* first successful answer and reports that address and baud rate, makes   *)
(* at most five probes, and fails with an error only after all five probes *)
(* failed; if the user declines, no probe is sent.                         *)
(***************************************************************************)
C28_AsStated ==
    call.fn = "CliConnection::RtuScan" =>
        LET probes == call.arg.probes
            n == C28_Probed
        IN  /\ call.arg.confirm = Ok(FALSE) => wire = <<>> /\ n = 0
            /\ call.arg.confirm = Ok(TRUE) =>
                   /\ n \in 1 .. 5
                   /\ wire = [i \in 1 .. n |-> C28_Request(i)]
                   /\ \A i \in 1 .. n - 1 : ~C28_Found(probes[i])
                   /\ ret.ok =>
                          /\ C28_Found(probes[n])
                          /\ C28_Reports(probes[n].answer.val.val[1],
                                         BaudRate_into_u16(C28_Order[n]))
                   /\ ~ret.ok =>
                          n = 5 /\ \A i \in 1 .. 5 : C28_Failed(probes[i])

(***************************************************************************)
(* C28 as amended.  The RTU scan, once the user has confirmed, probes the  *)
(* baud rates in the order 19200, 9600, 4800, 2400, 1200: for each it      *)
(* prints and flushes a progress text, opens the serial port at that rate  *)
(* and, if the port opened, sends one read-address request to the          *)
(* broadcast address 255 (a port that does not open is a failed probe      *)
(* without a request).  It stops at the first successful answer and        *)
(* reports that address and baud rate, and makes at most five probes.  It  *)
(* fails with an error when all five probes failed, or at once when a      *)
(* flush of the progress text fails or the prompt fails; if the user       *)
(* declines, no probe is sent.                                             *)
(***************************************************************************)
C28_RtuScan ==
    call.fn = "CliConnection::RtuScan" =>
        LET probes == call.arg.probes
            n == C28_Probed
            Opened(i) == probes[i].flush.ok /\ probes[i].open.ok
            opened == SelectSeq([i \in 1 .. n |-> i], Opened)
        IN  /\ call.arg.confirm = Ok(FALSE) => wire = <<>> /\ n = 0 /\ ret.ok
            /\ ~call.arg.confirm.ok =>
                   wire = <<>> /\ n = 0 /\ ret = Err(call.arg.confirm.err)
            /\ call.arg.confirm = Ok(TRUE) =>
                   /\ n \in 1 .. 5
                   /\ wire = [j \in 1 .. Len(opened) |-> C28_Request(opened[j])]
                   /\ \A i \in 1 .. n - 1 : C28_Failed(probes[i])
                   /\ ret.ok <=> C28_Found(probes[n])
                   /\ ret.ok =>
                          C28_Reports(probes[n].answer.val.val[1],
                                      BaudRate_into_u16(C28_Order[n]))
                   /\ ~ret.ok =>
                          \/ ~probes[n].flush.ok /\ ret = Err(probes[n].flush.err)
                          \/ /\ n = 5
                             /\ C28_Failed(probes[n])
                             /\ ret = Err("No R4DCB08 device found across all supported baud rates.")

C28_Witness ==
    /\ call.fn = "CliConnection::RtuScan"
    /\ call.arg.confirm = Ok(TRUE)
    /\ ~call.arg.probes[1].open.ok
    /\ call.arg.probes[2].answer = Err(Transport("TimedOut"))
    /\ C28_Found(call.arg.probes[3])
    /\ wire = <<C28_Request(2), C28_Request(3)>>
    /\ ret.ok
    /\ C28_Reports(Address_MAX, 4800)

\* The positions on the wire of the writes to the register 0x00FF.
C29_ResetWrites ==
    {i \in 1 .. Len(wire) :
        wire[i].fc = "write_single_register" /\ wire[i].address = 255}

(***************************************************************************)
(* C29.  The CLI FactoryReset command sends the factory-reset write only   *)
(* after the user confirmed the prompt and the preliminary                 *)
(* read_temperatures succeeded: the write, if any, is the one request      *)
(* after the read of the temperatures.  If the user declines, or the read  *)
(* fails with a transport error or a Modbus exception, no write to the     *)
(* register 0x00FF is issued.                                              *)
(***************************************************************************)
C29_ResetAfterChecks ==
    call.fn = "CliCommands::FactoryReset" =>
        LET confirmed == call.arg.confirm = Ok(TRUE)
            verified == call.arg.read.ok /\ call.arg.read.val.ok
        IN  /\ C29_ResetWrites # {} <=> confirmed /\ verified
            /\ C29_ResetWrites # {} =>
                   /\ C29_ResetWrites = {2}
                   /\ wire = <<read_holding_registers(0, 8),
                               write_single_register(255, 5)>>
            /\ confirmed /\ ~verified =>
                   wire = <<read_holding_registers(0, 8)>> /\ ~ret.ok
            /\ ~confirmed => wire = <<>>

C29_Witness ==
    /\ call.fn = "CliCommands::FactoryReset"
    /\ call.arg.confirm = Ok(TRUE)
    /\ call.arg.read = Ok(Err("IllegalDataAddress"))
    /\ call.arg.write = Ok(Ok(<<>>))
    /\ wire = <<read_holding_registers(0, 8)>>
    /\ ~ret.ok

\* The duration d lasts at least so many nanoseconds (fewer than 10^9).
C30_AtLeast(d, nanos) == d.secs > 0 \/ d.nanos >= nanos

C30_Le(a, b) == a.secs < b.secs \/ (a.secs = b.secs /\ a.nanos <= b.nanos)

\* The greater of two durations.
C30_Max(a, b) == IF C30_Le(a, b) THEN b ELSE a

\* 3.5 character times of 11 bits at the rate, in nanoseconds, rounded up:
\* 38.5 * 10^9 / rate = 385 * 10^6 / (rate / 100).
C30_CharTimesNanos(baud_rate) ==
    LET r == BaudRate_into_u16(baud_rate) \div 100
    IN  (385000000 + r - 1) \div r

\* The minimum in whole microseconds, as the tests of main.rs give it.
C30_MinimumMicros ==
    [b \in BaudRates |->
        CASE b = "B1200" -> 32083
          [] b = "B2400" -> 16041
          [] b = "B4800" -> 8020
          [] b = "B9600" -> 4010
          [] b = "B19200" -> 2005]

(***************************************************************************)
(* C30 as stated.  check_rtu_delay(user_delay, baud) returns the maximum   *)
(* of user_delay and minimum_rtu_delay(baud): the effective delay is never *)
(* below the minimum inter-frame delay of the baud rate (3.5 character     *)
(* times of 11 bits, at least 1750 microseconds) and equals the user delay *)
(* whenever the user delay is at least that minimum.                       *)
(***************************************************************************)
C30_AsStated ==
    call.fn = "check_rtu_delay" =>
        LET minimum == minimum_rtu_delay(call.arg.baud_rate)
        IN  /\ ret = C30_Max(call.arg.user_delay, minimum)
            /\ C30_AtLeast(ret, C30_CharTimesNanos(call.arg.baud_rate))
            /\ C30_AtLeast(ret, 1750000)
            /\ C30_Le(minimum, call.arg.user_delay) => ret = call.arg.user_delay

(***************************************************************************)
(* C30 as amended.  check_rtu_delay(user_delay, baud) returns the maximum  *)
(* of user_delay and minimum_rtu_delay(baud), where minimum_rtu_delay is   *)
(* 3.5 character times of 11 bits truncated to whole microseconds (32083,  *)
(* 16041, 8020, 4010, 2005 for 1200 .. 19200 baud, up to a microsecond     *)
(* less than 3.5 character times) and at least 1750 microseconds: the      *)
(* effective delay is never below that minimum and equals the user delay   *)
(* whenever the user delay is at least that minimum.                       *)
(***************************************************************************)
C30_CheckRtuDelay ==
    /\ call.fn = "minimum_rtu_delay" =>
           LET micros == C30_MinimumMicros[call.arg]
               rate == BaudRate_into_u16(call.arg)
           IN  /\ ret = Duration(0, micros * 1000)
               /\ micros * rate <= 38500000
               /\ 38500000 < (micros + 1) * rate
               /\ micros >= 1750
    /\ call.fn = "check_rtu_delay" =>
           LET minimum == Duration(0, C30_MinimumMicros[call.arg.baud_rate] * 1000)
           IN  /\ ret = C30_Max(call.arg.user_delay, minimum)
               /\ C30_Le(minimum, ret)
               /\ C30_Le(call.arg.user_delay, ret)
               /\ C30_Le(minimum, call.arg.user_delay) => ret = call.arg.user_delay

C30_Witness ==
    /\ call.fn = "check_rtu_delay"
    /\ call.arg.user_delay = Duration(0, 3000000)
    /\ call.arg.baud_rate = "B9600"
    /\ ret = Duration(0, 4010000)

====
